---- MODULE Spec2Model ----
(***************************************************************************)
(* Inventory / demand monitoring dashboard (app.py).                       *)
(*                                                                         *)
(* One behaviour is one top-to-bottom run of the dashboard script over the *)
(* loaded tables and the widget values held in the session state; the      *)
(* session specifications start before load_data and run the script again  *)
(* after the files or the memo of st.cache_data changed.  The generators   *)
(* of inventory_txn.csv (generate_inventory_txn.py, make_inv_txn.py) are   *)
(* separate behaviours over the same file variable.                        *)
(*                                                                         *)
(* Conventions of the model                                                *)
(*   - a date is an integer day number; the inventory snapshot of Init is  *)
(*     taken on day 0, so demand history has dates <= 0 and forecast dates *)
(*     are 1, 2, ...                                                       *)
(*   - SQL NULL / pandas NaN / Python None is <<>>, a defined value v is   *)
(*     <<v>>                                                               *)
(*   - a value rounded to one decimal is held in tenths (28.0 is 280), a   *)
(*     value rounded to two decimals in hundredths                         *)
(*   - an unrounded float is the exact rational [n |-> , d |-> ], d > 0    *)
(***************************************************************************)
EXTENDS Integers, FiniteSets, Sequences, TLC

VARIABLES sku_master, demand_daily, inventory_daily, ss, pc,
          forecast_daily, forecast_metrics_df, sku_dos, actions_base_ov,
          health, health_cnt, risk, actions_base,
          delta_row,
          hot_issues,
          mape_pct,
          mape_n,
          confidence_hint,
          sel_shortage_days,
          sel_over_days,
          files,
          load_cache,
          inv_txn,
          txn_summary,
          run,
          status_rows,
          out_rows

vars == <<sku_master, demand_daily, inventory_daily, ss, pc,
          forecast_daily, forecast_metrics_df, sku_dos, actions_base_ov,
          health, health_cnt, risk, actions_base,
          delta_row,
          hot_issues,
          mape_pct,
          mape_n,
          confidence_hint,
          sel_shortage_days,
          sel_over_days,
          files,
          load_cache,
          inv_txn,
          txn_summary,
          run,
          status_rows,
          out_rows>>

inputs == <<sku_master, demand_daily, inventory_daily, ss>>

(***************************************************************************)
(* Optional values and arithmetic                                          *)
(***************************************************************************)
NULL == <<>>

Some(v) == <<v>>

IsNull(x) == x = NULL

Val(x) == x[1]

Abs(x) == IF x < 0 THEN -x ELSE x

Sign(x) == IF x < 0 THEN -1 ELSE 1

Max2(a, b) == IF a >= b THEN a ELSE b

SetMax(S) == CHOOSE x \in S : \A y \in S : y <= x

SetMin(S) == CHOOSE x \in S : \A y \in S : x <= y

RECURSIVE Gcd(_, _)
Gcd(a, b) == IF b = 0 THEN a ELSE Gcd(b, a % b)

Lcm(a, b) == (a * b) \div Gcd(a, b)

RECURSIVE LcmSet(_)
LcmSet(S) ==
    IF S = {} THEN 1
    ELSE LET x == CHOOSE y \in S : TRUE IN Lcm(x, LcmSet(S \ {x}))

\* p / q rounded to the nearest integer, ties away from zero (q # 0):
\* DuckDB ROUND on a DOUBLE.
RoundHalfAway(p, q) ==
    Sign(p) * Sign(q) * ((2 * Abs(p) + Abs(q)) \div (2 * Abs(q)))

\* p / q rounded to the nearest integer, ties to the even neighbour (q # 0):
\* numpy / pandas round and Python round on an exact tie.
RoundHalfEven(p, q) ==
    LET ap == Abs(p)
        aq == Abs(q)
        fl == ap \div aq
        r2 == 2 * (ap % aq)
        m  == IF r2 > aq THEN fl + 1
              ELSE IF r2 < aq THEN fl
              ELSE IF fl % 2 = 0 THEN fl ELSE fl + 1
    IN  Sign(p) * Sign(q) * m

\* ceiling of p / q for q > 0
CeilDiv(p, q) == -((-p) \div q)

Rat(n, d) == [n |-> n, d |-> d]

RatLess(a, b) == a.n * b.d < b.n * a.d

RatEq(a, b) == a.n * b.d = b.n * a.d

\* Floor0 without the floor
Floor0_none(x) == x

\* max(0, x) of a float x
Floor0(x) == IF x.n > 0 THEN x ELSE Rat(0, 1)

(***************************************************************************)
(* Tables and filters                                                      *)
(*   sku_master      rows [sku, category]                                  *)
(*   demand_daily    rows [date, sku, demand_qty], at most one per         *)
(*                   (date, sku)                                           *)
(*   inventory_daily rows [date, sku, warehouse, onhand_qty], at most one  *)
(*                   per (date, sku, warehouse)                            *)
(***************************************************************************)
RECURSIVE SumDemand(_)
SumDemand(rows) ==
    IF rows = {} THEN 0
    ELSE LET r == CHOOSE x \in rows : TRUE
         IN  r.demand_qty + SumDemand(rows \ {r})

RECURSIVE SumOnhand(_)
SumOnhand(rows) ==
    IF rows = {} THEN 0
    ELSE LET r == CHOOSE x \in rows : TRUE
         IN  r.onhand_qty + SumOnhand(rows \ {r})

\* SELECT MAX(date) FROM inventory_daily
latest_date == SetMax({i.date : i \in inventory_daily})

\* The AND clauses appended to "FROM sku_master m WHERE 1=1".
get_base_sku_where(m, cat, wh, sku_pick) ==
    /\ (cat # "ALL" => m.category = cat)
    /\ (sku_pick # "ALL" => m.sku = sku_pick)
    /\ (wh # "ALL" =>
          \E i \in inventory_daily : i.sku = m.sku /\ i.warehouse = wh)

_inv_wh_where(i, wh) == (wh # "ALL" => i.warehouse = wh)

\* base_sku CTE: the SKUs of the current filter
base_sku ==
    {m.sku : m \in {x \in sku_master :
                      get_base_sku_where(x, ss.cat, ss.wh, ss.sku_pick)}}

\* latest_inv CTE without GROUP BY: the snapshot rows of a SKU
latest_inv_rows(sku) ==
    {i \in inventory_daily :
        i.sku = sku /\ i.date = latest_date /\ _inv_wh_where(i, ss.wh)}

\* demand_window with the day n days before the reference date included
demand_window_closed(sku, n) ==
    {d \in demand_daily :
        d.sku = sku /\ d.date >= latest_date - n /\ d.date <= latest_date}

\* demand rows of a SKU with latest_date - n days < date <= latest_date
demand_window(sku, n) ==
    {d \in demand_daily :
        d.sku = sku /\ d.date > latest_date - n /\ d.date <= latest_date}

\* COALESCE(SUM(demand_qty), 0) over the window (SUM of no row is NULL)
demand_sum(sku, n) == SumDemand(demand_window(sku, n))

\* AVG(demand_qty) over the rows of the window: NULL when there is no row
avg_daily_demand(sku, n) ==
    LET w == demand_window(sku, n)
    IN  IF w = {} THEN NULL ELSE Some(Rat(SumDemand(w), Cardinality(w)))

\* COALESCE(avg, 0)
CoalesceAvg(a) == IF IsNull(a) THEN Rat(0, 1) ELSE Val(a)

\* compute_dos(onhand_qty, avg_daily_demand), in tenths
compute_dos(onhand_qty, avg) ==
    IF IsNull(avg) \/ Val(avg).n = 0 THEN NULL
    ELSE Some(RoundHalfEven(10 * onhand_qty * Val(avg).d, Val(avg).n))

\* coverage_sum_based with "no demand" reported as 0.0 instead of NULL
coverage_sum_based_zero(onhand_qty, demand_Nd, n) ==
    IF demand_Nd > 0
    THEN Some(RoundHalfAway(10 * onhand_qty * n, demand_Nd))
    ELSE Some(0)

\* coverage_sum_based with the operands of the division exchanged
coverage_sum_based_swapped(onhand_qty, demand_Nd, n) ==
    IF demand_Nd > 0 /\ onhand_qty > 0
    THEN Some(RoundHalfAway(10 * demand_Nd * n, onhand_qty))
    ELSE NULL

\* Overview / summary coverage:
\*   CASE WHEN COALESCE(demand_Nd, 0) > 0
\*     THEN ROUND(COALESCE(onhand_qty, 0) * N * 1.0 / NULLIF(demand_Nd, 0), 1)
\*     ELSE NULL END
coverage_sum_based(onhand_qty, demand_Nd, n) ==
    IF demand_Nd > 0
    THEN Some(RoundHalfAway(10 * onhand_qty * n, demand_Nd))
    ELSE NULL

\* Health / risk / actions coverage:
\*   CASE WHEN COALESCE(avg, 0) = 0 THEN NULL
\*     ELSE ROUND(COALESCE(onhand_qty, 0) / avg, 1) END
coverage_avg_based(onhand_qty, avg) ==
    IF CoalesceAvg(avg).n = 0 THEN NULL
    ELSE Some(RoundHalfAway(10 * onhand_qty * Val(avg).d, Val(avg).n))

\* estimated_stockout_date with the fractional day truncated
estimated_stockout_date_trunc(cov) ==
    IF IsNull(cov) THEN NULL ELSE Some(latest_date + (Val(cov) \div 10))

\* date_add(latest_date, CAST(CEIL(coverage_days) AS INTEGER))
estimated_stockout_date(cov) ==
    IF IsNull(cov) THEN NULL ELSE Some(latest_date + CeilDiv(Val(cov), 10))

\* "b LEFT JOIN latest_inv li": one record per snapshot row of the SKU, or
\* one record with NULL warehouse and COALESCE(onhand_qty, 0) = 0
left_join_inv(sku) ==
    IF latest_inv_rows(sku) = {}
    THEN {[warehouse |-> NULL, onhand_qty |-> 0]}
    ELSE {[warehouse |-> Some(i.warehouse), onhand_qty |-> i.onhand_qty] :
             i \in latest_inv_rows(sku)}

(***************************************************************************)
(* Overview tab: exec_kpi_sql.sku_dos                                      *)
(***************************************************************************)
exec_sku_dos(n) ==
    {[sku           |-> s,
      onhand_qty    |-> SumOnhand(latest_inv_rows(s)),
      demand_Nd     |-> demand_sum(s, n),
      coverage_days |-> coverage_sum_based(SumOnhand(latest_inv_rows(s)),
                                           demand_sum(s, n), n)] :
        s \in base_sku}

\* delta_sql and the deltas derived from its row
delta_sql ==
    LET inv_at(dt) == SumOnhand({i \in inventory_daily :
                         /\ i.sku \in base_sku
                         /\ i.date = dt
                         /\ _inv_wh_where(i, ss.wh)})
        dem(lo, hi) == SumDemand({d \in demand_daily :
                         /\ d.sku \in base_sku
                         /\ d.date > lo
                         /\ d.date <= hi})
        onhand_now    == inv_at(latest_date)
        onhand_7d     == inv_at(latest_date - 7)
        demand_cur_7  == dem(latest_date - 7, latest_date)
        demand_prev_7 == dem(latest_date - 14, latest_date - 7)
    IN  [onhand_now    |-> onhand_now,
         onhand_7d_ago |-> onhand_7d,
         demand_cur_7  |-> demand_cur_7,
         demand_prev_7 |-> demand_prev_7,
         delta_onhand  |-> IF onhand_now # 0 \/ onhand_7d # 0
                           THEN Some(onhand_now - onhand_7d) ELSE NULL,
         delta_demand  |-> Some(demand_cur_7 - demand_prev_7)]

(***************************************************************************)
(* Inventory-health tab                                                    *)
(***************************************************************************)
\* assign_bucket with the shortage boundary put in Shortage
assign_bucket_le(cd, shortage_days, over_days) ==
    IF IsNull(cd) THEN "NoDemand"
    ELSE IF Val(cd) <= 10 * shortage_days THEN "Shortage"
    ELSE IF Val(cd) > 10 * over_days THEN "Overstock"
    ELSE "Adequate"

assign_bucket(cd, shortage_days, over_days) ==
    IF IsNull(cd) THEN "NoDemand"
    ELSE IF Val(cd) < 10 * shortage_days THEN "Shortage"
    ELSE IF Val(cd) > 10 * over_days THEN "Overstock"
    ELSE "Adequate"

health_sql_tab(n, shortage_days, over_days) ==
    UNION {
      {[sku                 |-> s,
        warehouse           |-> li.warehouse,
        onhand_qty          |-> li.onhand_qty,
        demand_30d          |-> demand_sum(s, 30),
        avg_daily_demand_Nd |-> CoalesceAvg(avg_daily_demand(s, n)),
        coverage_days       |-> coverage_avg_based(li.onhand_qty,
                                                   avg_daily_demand(s, n)),
        bucket              |-> assign_bucket(
                                  coverage_avg_based(li.onhand_qty,
                                                     avg_daily_demand(s, n)),
                                  shortage_days, over_days)] :
          li \in left_join_inv(s)} : s \in base_sku}

\* cnt_short, cnt_ok, cnt_over, cnt_nodemand and total_sku of a health table
bucket_counts(h) ==
    [cnt_short    |-> Cardinality({r \in h : r.bucket = "Shortage"}),
     cnt_ok       |-> Cardinality({r \in h : r.bucket = "Adequate"}),
     cnt_over     |-> Cardinality({r \in h : r.bucket = "Overstock"}),
     cnt_nodemand |-> Cardinality({r \in h : r.bucket = "NoDemand"}),
     total_sku    |-> Cardinality(h)]

(***************************************************************************)
(* Stockout-risk tab (past 14-day basis)                                   *)
(***************************************************************************)
\* assign_risk_level with the boundary 3.0 put in the lower level
assign_risk_level_le(days) ==
    IF IsNull(days) THEN "Low"
    ELSE IF Val(days) <= 10 * 3 THEN "Critical"
    ELSE IF Val(days) < 10 * 7 THEN "High"
    ELSE IF Val(days) < 10 * 14 THEN "Medium"
    ELSE "Low"

assign_risk_level(days) ==
    IF IsNull(days) THEN "Low"
    ELSE IF Val(days) < 10 * 3 THEN "Critical"
    ELSE IF Val(days) < 10 * 7 THEN "High"
    ELSE IF Val(days) < 10 * 14 THEN "Medium"
    ELSE "Low"

risk_sql ==
    UNION {
      {[sku                     |-> s,
        warehouse               |-> li.warehouse,
        onhand_qty              |-> li.onhand_qty,
        avg_daily_demand_14d    |-> CoalesceAvg(avg_daily_demand(s, 14)),
        demand_7d               |-> demand_sum(s, 7),
        coverage_days           |-> coverage_avg_based(li.onhand_qty,
                                        avg_daily_demand(s, 14)),
        estimated_stockout_date |-> estimated_stockout_date(
                                        coverage_avg_based(li.onhand_qty,
                                            avg_daily_demand(s, 14))),
        risk_level              |-> assign_risk_level(
                                        coverage_avg_based(li.onhand_qty,
                                            avg_daily_demand(s, 14)))] :
          li \in left_join_inv(s)} : s \in base_sku}

(***************************************************************************)
(* Reorder / actions tab (past 14-day basis)                               *)
(***************************************************************************)
\* (avg_d * total_days).round(0).astype(int)
target_stock(avg, lead_time_days, target_cover_days, safety_stock_days) ==
    RoundHalfEven(
        avg.n * (lead_time_days + target_cover_days + safety_stock_days),
        avg.d)

\* raw_order without the clip at zero
raw_order_noclip(target, onhand_qty) == target - onhand_qty

\* (target_stock - onhand).clip(lower=0).astype(int)
raw_order(target, onhand_qty) == Max2(target - onhand_qty, 0)

\* moq_clamp that lifts every recommendation, also a zero one, to the MOQ
moq_clamp_forced(rec, moq) ==
    IF moq > 0 THEN Max2(rec, moq) ELSE rec

\* if moq > 0: rec.where(rec <= 0, rec.clip(lower=moq))
moq_clamp(rec, moq) ==
    IF moq > 0
    THEN (IF rec <= 0 THEN rec ELSE Max2(rec, moq))
    ELSE rec

recommended_order_qty(onhand_qty, avg, lead_time_days, target_cover_days, safety_stock_days, moq) ==
    moq_clamp(raw_order(target_stock(avg, lead_time_days, target_cover_days,
                                     safety_stock_days), onhand_qty), moq)

\* assign_reason_past with the policy-target rule tried first
assign_reason_past_swapped(coverage_days, onhand_qty, target, target_cover_days) ==
    IF onhand_qty < target THEN "PolicyReplenishROP"
    ELSE IF ~IsNull(coverage_days) /\ Val(coverage_days) < 10 * target_cover_days
    THEN "ImmediateRisk"
    ELSE "Other"

\* The reasons are tags for the displayed labels, in the order of the code:
\* ImmediateRisk (DOS < target cover), PolicyReplenishROP (below ROP), Other.
assign_reason_past(coverage_days, onhand_qty, target, target_cover_days) ==
    IF ~IsNull(coverage_days) /\ Val(coverage_days) < 10 * target_cover_days
    THEN "ImmediateRisk"
    ELSE IF onhand_qty < target THEN "PolicyReplenishROP"
    ELSE "Other"

actions_sql ==
    UNION {
      {[sku                     |-> s,
        warehouse               |-> li.warehouse,
        onhand_qty              |-> li.onhand_qty,
        avg_daily_demand_14d    |-> CoalesceAvg(avg_daily_demand(s, 14)),
        reorder_point           |-> RoundHalfAway(
                                      CoalesceAvg(avg_daily_demand(s, 14)).n * 10,
                                      CoalesceAvg(avg_daily_demand(s, 14)).d),
        coverage_days           |-> coverage_avg_based(li.onhand_qty,
                                        avg_daily_demand(s, 14)),
        estimated_stockout_date |-> estimated_stockout_date(
                                        coverage_avg_based(li.onhand_qty,
                                            avg_daily_demand(s, 14)))] :
          li \in left_join_inv(s)} : s \in base_sku}

tab_actions_rows(lead_time_days, target_cover_days, safety_stock_days, moq) ==
    {[sku                     |-> r.sku,
      warehouse               |-> r.warehouse,
      onhand_qty              |-> r.onhand_qty,
      avg_daily_demand_14d    |-> r.avg_daily_demand_14d,
      reorder_point           |-> r.reorder_point,
      coverage_days           |-> r.coverage_days,
      estimated_stockout_date |-> r.estimated_stockout_date,
      target_stock            |-> target_stock(r.avg_daily_demand_14d,
                                      lead_time_days, target_cover_days,
                                      safety_stock_days),
      recommended_order_qty   |-> recommended_order_qty(r.onhand_qty,
                                      r.avg_daily_demand_14d, lead_time_days,
                                      target_cover_days, safety_stock_days,
                                      moq),
      reason                  |-> assign_reason_past(r.coverage_days,
                                      r.onhand_qty,
                                      target_stock(r.avg_daily_demand_14d,
                                          lead_time_days, target_cover_days,
                                          safety_stock_days),
                                      target_cover_days)] :
        r \in actions_sql}

(***************************************************************************)
(* Forecast sub-engine                                                     *)
(***************************************************************************)
\* Sum of a column of floats held as rationals, one per row.
RECURSIVE SumNum(_, _)
SumNum(rows, den) ==
    IF rows = {} THEN 0
    ELSE LET r == CHOOSE x \in rows : TRUE
         IN  r.forecast_qty.n * (den \div r.forecast_qty.d)
               + SumNum(rows \ {r}, den)

SumForecast(rows) ==
    LET den == LcmSet({r.forecast_qty.d : r \in rows})
    IN  Rat(SumNum(rows, den), den)

\* _get_filtered_skus_pandas that looks for the warehouse in the snapshot
\* rows of the latest date only
_get_filtered_skus_latest(sku_df, inv_df, cat, wh, sku_pick) ==
    {m.sku : m \in {x \in sku_df :
        /\ (cat # "ALL" => x.category = cat)
        /\ (sku_pick # "ALL" => x.sku = sku_pick)
        /\ (wh # "ALL" =>
              x.sku \in {i.sku : i \in {j \in inv_df :
                             j.warehouse = wh /\ j.date = latest_date}})}}

_get_filtered_skus_pandas(sku_df, inv_df, cat, wh, sku_pick) ==
    {m.sku : m \in {x \in sku_df :
        /\ (cat # "ALL" => x.category = cat)
        /\ (sku_pick # "ALL" => x.sku = sku_pick)
        /\ (wh # "ALL" =>
              x.sku \in {i.sku : i \in {j \in inv_df : j.warehouse = wh}})}}

\* "MovingAvg(7)" -> ("MovingAvg", 7), "SeasonalNaive(7)" -> ("SeasonalNaive", 7)
parse_model_type(model_type) ==
    CASE model_type = "MovingAvg(7)"     -> [method |-> "MovingAvg", param |-> 7]
      [] model_type = "MovingAvg(14)"    -> [method |-> "MovingAvg", param |-> 14]
      [] model_type = "MovingAvg(30)"    -> [method |-> "MovingAvg", param |-> 30]
      [] model_type = "SeasonalNaive(7)" -> [method |-> "SeasonalNaive", param |-> 7]
      [] OTHER                           -> [method |-> "MovingAvg", param |-> 14]

\* d.sort_values("date").tail(k)
tail_rows(rows, k) ==
    {r \in rows : Cardinality({x \in rows : x.date > r.date}) < k}

\* last_n["demand_qty"].mean()
Mean(rows) == Rat(SumDemand(rows), Cardinality(rows))

\* last_n["demand_qty"].values[j], rows in increasing date order, j from 0
PatternAt(rows, j) ==
    (CHOOSE r \in rows :
        Cardinality({x \in rows : x.date < r.date}) = j).demand_qty

\* forecast_qty_of with the pattern indexed by i instead of i - 1
forecast_qty_of_shifted(d, method, param, i) ==
    LET last_n == tail_rows(d, param)
    IN  IF method = "MovingAvg" THEN Floor0(Mean(last_n))
        ELSE IF Cardinality(last_n) < param THEN Floor0(Mean(last_n))
        ELSE Floor0(Rat(PatternAt(last_n, i % Cardinality(last_n)), 1))

\* forecast_qty of one SKU for forecast day i, from its visible history d
forecast_qty_of(d, method, param, i) ==
    LET last_n == tail_rows(d, param)
    IN  IF method = "MovingAvg" THEN Floor0(Mean(last_n))
        ELSE IF Cardinality(last_n) < param THEN Floor0(Mean(last_n))
        ELSE Floor0(Rat(PatternAt(last_n, (i - 1) % Cardinality(last_n)), 1))

\* compute_forecast that gives a SKU without history rows of forecast_qty 0
compute_forecast_zero_filled(demand_df, sku_df, inv_df, cat, wh, sku_pick, latest, horizon_days, model_type, lookback_days) ==
    LET demand   == {r \in demand_df :
                        r.date >= latest - lookback_days /\ r.date <= latest}
        sku_list == _get_filtered_skus_pandas(sku_df, inv_df, cat, wh, sku_pick)
        m        == parse_model_type(model_type)
        hist(s)  == {r \in demand : r.sku = s}
    IN  UNION {
          {[date         |-> latest + i,
            sku          |-> s,
            forecast_qty |-> IF hist(s) = {} THEN Rat(0, 1)
                             ELSE forecast_qty_of(hist(s), m.method,
                                                  m.param, i)] :
              i \in 1..horizon_days} : s \in sku_list}

compute_forecast(demand_df, sku_df, inv_df, cat, wh, sku_pick, latest, horizon_days, model_type, lookback_days) ==
    LET demand   == {r \in demand_df :
                        r.date >= latest - lookback_days /\ r.date <= latest}
        sku_list == _get_filtered_skus_pandas(sku_df, inv_df, cat, wh, sku_pick)
        m        == parse_model_type(model_type)
        hist(s)  == {r \in demand : r.sku = s}
    IN  UNION {
          IF hist(s) = {} THEN {}
          ELSE {[date         |-> latest + i,
                 sku          |-> s,
                 forecast_qty |-> forecast_qty_of(hist(s), m.method,
                                                  m.param, i)] :
                   i \in 1..horizon_days} : s \in sku_list}

\* stockout_date_forecast with the comparison reversed (cum < onhand)
stockout_date_forecast_lt(f_sku, onhand) ==
    LET cum(dt) == SumForecast({r \in f_sku : r.date <= dt})
        over    == {r.date : r \in {x \in f_sku :
                        RatLess(cum(x.date), Rat(onhand, 1))}}
    IN  IF over = {} THEN NULL ELSE Some(SetMin(over))

\* stockout_date_forecast that already fires when the running sum reaches
\* onhand
stockout_date_forecast_ge(f_sku, onhand) ==
    LET cum(dt) == SumForecast({r \in f_sku : r.date <= dt})
        over    == {r.date : r \in {x \in f_sku :
                        ~RatLess(cum(x.date), Rat(onhand, 1))}}
    IN  IF over = {} THEN NULL ELSE Some(SetMin(over))

\* First date at which the running sum of forecast_qty, in increasing date
\* order, exceeds onhand; NULL when there is none.
stockout_date_forecast(f_sku, onhand) ==
    LET cum(dt) == SumForecast({r \in f_sku : r.date <= dt})
        over    == {r.date : r \in {x \in f_sku :
                        RatLess(Rat(onhand, 1), cum(x.date))}}
    IN  IF over = {} THEN NULL ELSE Some(SetMin(over))

\* forecast_avg_daily with the week hard-coded as the divisor
forecast_avg_daily_week(total, horizon_days) ==
    RoundHalfEven(100 * total.n, total.d * 7)

\* (forecast_total / horizon_days).round(2), in hundredths
forecast_avg_daily(total, horizon_days) ==
    RoundHalfEven(100 * total.n, total.d * horizon_days)

\* round(onhand_qty / forecast_avg_daily, 1) if forecast_avg_daily and
\* forecast_avg_daily > 0 else None; avg in hundredths, result in tenths
forecast_dos(onhand_qty, avg) ==
    IF avg # 0 /\ avg > 0 THEN Some(RoundHalfEven(1000 * onhand_qty, avg))
    ELSE NULL

compute_forecast_metrics(forecast_daily_df, latest_inv_df, horizon_days, latest) ==
    LET f_of(s)   == {r \in forecast_daily_df : r.sku = s}
        onhand(s) == SumOnhand({i \in latest_inv_df : i.sku = s})
        total(s)  == SumForecast(f_of(s))
        avg(s)    == forecast_avg_daily(total(s), horizon_days)
    IN  {[sku                    |-> s,
          forecast_total         |-> total(s),
          forecast_avg_daily     |-> avg(s),
          forecast_demand_next7  |-> SumForecast({r \in f_of(s) :
                                        r.date <= latest + 7}),
          onhand_qty             |-> onhand(s),
          forecast_dos           |-> forecast_dos(onhand(s), avg(s)),
          stockout_date_forecast |-> stockout_date_forecast(f_of(s),
                                                            onhand(s))] :
          s \in {r.sku : r \in forecast_daily_df}}

(***************************************************************************)
(* Backtest and forecast confidence                                        *)
(***************************************************************************)
\* (sku, date) groups of a demand table
PointsOf(rows) == {[sku |-> r.sku, date |-> r.date] : r \in rows}

\* Sum of the absolute percentage errors of a set of points over the common
\* denominator den; ape(p) is a rational
RECURSIVE SumApe(_, _, _)
SumApe(points, ape, den) ==
    IF points = {} THEN 0
    ELSE LET p == CHOOSE x \in points : TRUE
         IN  ape[p].n * (den \div ape[p].d)
               + SumApe(points \ {p}, ape, den)

\* compute_mape_backtest: (mape_pct, len(errors)); lookback_days is not used
compute_mape_backtest(demand_df, lookback_days, model_type, latest, backtest_days) ==
    LET n        == parse_model_type(model_type).param
        start    == latest - backtest_days
        actuals  == {r \in demand_df : r.date >= start /\ r.date <= latest}
        grp(p)   == {r \in actuals : r.sku = p.sku /\ r.date = p.date}
        used     == {p \in PointsOf(actuals) : SumDemand(grp(p)) > 0}
        hist(p)  == {r \in demand_df :
                        /\ r.sku = p.sku
                        /\ r.date < p.date
                        /\ r.date >= p.date - n}
        pred(p)  == IF hist(p) = {} THEN Rat(0, 1) ELSE Floor0(Mean(hist(p)))
        ape      == [p \in used |->
                       LET a == SumDemand(grp(p))
                       IN  Rat(Abs(a * pred(p).d - pred(p).n),
                               a * pred(p).d)]
        den      == LcmSet({ape[p].d : p \in used})
    IN  IF demand_df = {} \/ actuals = {} \/ used = {}
        THEN [mape_pct |-> NULL, n |-> 0]
        ELSE [mape_pct |-> Some(Rat(100 * SumApe(used, ape, den),
                                    den * Cardinality(used))),
              n        |-> Cardinality(used)]

\* confidence_hint of a backtest result; the labels are tags for the
\* displayed strings, NA for the dash shown without a MAPE
confidence_hint_of(mape) ==
    IF ~IsNull(mape)
    THEN (IF RatLess(Val(mape), Rat(20, 1)) THEN "High"
          ELSE IF RatLess(Val(mape), Rat(40, 1)) THEN "Medium"
          ELSE "Low")
    ELSE "NA"

(***************************************************************************)
(* Overview tab, "top 10 actions": forecast-based reorder table            *)
(***************************************************************************)
\* (lt_f + fa * target_cover_days + fa * safety_stock_days).round(0).astype(int)
\* lt_f a float, fa the forecast_avg_daily in hundredths
target_stock_forecast(lt_f, fa, target_cover_days, safety_stock_days) ==
    RoundHalfEven(
        100 * lt_f.n + fa * (target_cover_days + safety_stock_days) * lt_f.d,
        100 * lt_f.d)

reason_ov(coverage_days, onhand_qty, target, target_cover_days) ==
    IF ~IsNull(coverage_days) /\ Val(coverage_days) < 10 * target_cover_days
    THEN "ForecastStockoutSoon"
    ELSE IF onhand_qty < target THEN "ShortForLeadTimeDemand"
    ELSE "PolicyReplenish"

actions_ov_rows(f_daily, f_metrics, lead_time_days, target_cover_days, safety_stock_days, moq) ==
    LET lt_f(s) == SumForecast({r \in f_daily :
                       r.sku = s /\ r.date <= latest_date + lead_time_days})
        tgt(m)  == target_stock_forecast(lt_f(m.sku), m.forecast_avg_daily,
                                         target_cover_days, safety_stock_days)
    IN  UNION {
          {[sku                     |-> m.sku,
            warehouse               |-> li.warehouse,
            onhand_qty              |-> li.onhand_qty,
            forecast_avg_daily      |-> m.forecast_avg_daily,
            lead_time_forecast      |-> lt_f(m.sku),
            target_stock            |-> tgt(m),
            recommended_order_qty   |-> moq_clamp(raw_order(tgt(m),
                                                  li.onhand_qty), moq),
            estimated_stockout_date |-> m.stockout_date_forecast,
            coverage_days           |-> m.forecast_dos,
            reason                  |-> reason_ov(m.forecast_dos,
                                            li.onhand_qty, tgt(m),
                                            target_cover_days)] :
              li \in left_join_inv(m.sku)} :
            m \in {x \in f_metrics : x.sku \in base_sku}}

(***************************************************************************)
(* Overview tab, "hot issues"                                              *)
(***************************************************************************)
shortage_days_hot == 14

over_days_hot == 60

\* hot_df: hot_sql left-merged with the forecast stockout date of the SKU
hot_sql(f_metrics) ==
    UNION {
      {[sku                    |-> s,
        warehouse              |-> li.warehouse,
        onhand_qty             |-> li.onhand_qty,
        demand_14d             |-> demand_sum(s, 14),
        demand_30d             |-> demand_sum(s, 30),
        coverage_days          |-> coverage_sum_based(li.onhand_qty,
                                       demand_sum(s, 14), 14),
        stockout_date_forecast |->
            IF \E m \in f_metrics : m.sku = s
            THEN (CHOOSE m \in f_metrics : m.sku = s).stockout_date_forecast
            ELSE NULL] :
          li \in left_join_inv(s)} : s \in base_sku}

\* demand_30d of the row at position i (from 0) of hot_df sorted by demand_30d
SortedDemand30(hot_df, i) ==
    CHOOSE v \in {r.demand_30d : r \in hot_df} :
       /\ Cardinality({r \in hot_df : r.demand_30d < v}) <= i
       /\ i < Cardinality({r \in hot_df : r.demand_30d <= v})

\* 4 * hot_df["demand_30d"].quantile(k / 4), linear interpolation
Quantile4(hot_df, k) ==
    LET pos4 == (Cardinality(hot_df) - 1) * k
        i    == pos4 \div 4
        f    == pos4 % 4
    IN  IF f = 0 THEN 4 * SortedDemand30(hot_df, i)
        ELSE 4 * SortedDemand30(hot_df, i)
               + f * (SortedDemand30(hot_df, i + 1)
                        - SortedDemand30(hot_df, i))

\* max(0, max(0, ceil(d14 / 14 * (lead + shortage_days_hot))) - onhand)
hot_rec_qty(d14, onhand, lead_days_hot) ==
    IF d14 > 0
    THEN Some(Max2(0, Max2(0, CeilDiv(d14 * (lead_days_hot + shortage_days_hot),
                                      14)) - onhand))
    ELSE NULL

\* One pass of the loop over hot_df: the issue of a row; issue_type NULL
\* means that the row is not appended to issues.
hot_issue(row, hot_df, lead_days_hot) ==
    LET cov    == row.coverage_days
        onhand == row.onhand_qty
        d14    == row.demand_14d
        d30    == row.demand_30d
        lt(x)  == ~IsNull(cov) /\ Val(cov) < 10 * x
        gt(x)  == ~IsNull(cov) /\ Val(cov) > 10 * x
        first  ==
          IF lt(shortage_days_hot) /\ (d14 > 0 \/ d30 > 0)
          THEN [issue_type |-> Some("StockoutSoon"),
                severity   |-> IF lt(7) THEN "Critical"
                               ELSE IF lt(14) THEN "High" ELSE "Medium",
                rec_qty    |-> hot_rec_qty(d14, onhand, lead_days_hot)]
          ELSE IF d30 > 0 /\ lt(21) /\ 4 * d30 >= Quantile4(hot_df, 3)
          THEN [issue_type |-> Some("HighDemandLowCoverage"),
                severity   |-> IF lt(14) THEN "High" ELSE "Medium",
                rec_qty    |-> hot_rec_qty(d14, onhand, lead_days_hot)]
          ELSE [issue_type |-> NULL, severity |-> "Medium", rec_qty |-> NULL]
        second ==
          IF IsNull(first.issue_type) /\ gt(over_days_hot)
               /\ 4 * d30 <= Quantile4(hot_df, 1)
          THEN [first EXCEPT !.issue_type = Some("OverstockLowTurnover"),
                             !.severity = "Medium"]
          ELSE first
        third  ==
          IF IsNull(second.issue_type) /\ d30 = 0 /\ onhand > 0
          THEN [second EXCEPT !.issue_type = Some("NoDemandStock"),
                              !.severity = "Medium"]
          ELSE second
    IN  [sku                    |-> row.sku,
         warehouse              |-> row.warehouse,
         issue_type             |-> third.issue_type,
         severity               |-> third.severity,
         stockout_date_forecast |-> row.stockout_date_forecast,
         rec_qty                |-> third.rec_qty]

\* issues: the rows of hot_df that got an issue type
hot_issues_of(hot_df, lead_days_hot) ==
    {i \in {hot_issue(row, hot_df, lead_days_hot) : row \in hot_df} :
        ~IsNull(i.issue_type)}

(***************************************************************************)
(* Reorder / actions tab, forecast basis                                   *)
(***************************************************************************)
\* Tags for the displayed labels, in the order of the code:
\* ForecastStockoutSoon, ShortForLeadTimeDemand, PolicyReplenish.
assign_reason_forecast(coverage_days, onhand_qty, target, target_cover_days) ==
    IF ~IsNull(coverage_days) /\ Val(coverage_days) < 10 * target_cover_days
    THEN "ForecastStockoutSoon"
    ELSE IF onhand_qty < target THEN "ShortForLeadTimeDemand"
    ELSE "PolicyReplenish"

\* actions_base after "if use_forecast_actions:": the rows of actions_sql
\* left-merged with the forecast metrics of their SKU; a SKU without metrics
\* gets forecast_avg_daily 0 for the target and NaN in the copied columns.
tab_actions_rows_forecast(f_daily, f_metrics, lead_time_days, target_cover_days, safety_stock_days, moq) ==
    LET lt_f(s)  == SumForecast({r \in f_daily :
                        r.sku = s /\ r.date <= latest_date + lead_time_days})
        has(s)   == \E m \in f_metrics : m.sku = s
        met(s)   == CHOOSE m \in f_metrics : m.sku = s
        fa(s)    == IF has(s) THEN met(s).forecast_avg_daily ELSE 0
        cov(s)   == IF has(s) THEN met(s).forecast_dos ELSE NULL
        tgt(s)   == target_stock_forecast(lt_f(s), fa(s), target_cover_days,
                                          safety_stock_days)
    IN  {[sku                     |-> r.sku,
          warehouse               |-> r.warehouse,
          onhand_qty              |-> r.onhand_qty,
          avg_daily_demand_14d    |-> IF has(r.sku)
                                      THEN Some(met(r.sku).forecast_avg_daily)
                                      ELSE NULL,
          reorder_point           |-> r.reorder_point,
          coverage_days           |-> cov(r.sku),
          estimated_stockout_date |-> IF has(r.sku)
                                      THEN met(r.sku).stockout_date_forecast
                                      ELSE NULL,
          target_stock            |-> tgt(r.sku),
          recommended_order_qty   |-> moq_clamp(raw_order(tgt(r.sku),
                                                r.onhand_qty), moq),
          reason                  |-> assign_reason_forecast(cov(r.sku),
                                          r.onhand_qty, tgt(r.sku),
                                          target_cover_days)] :
            r \in actions_sql}

(***************************************************************************)
(* Data access: load_data and its st.cache_data memo                       *)
(***************************************************************************)
\* A file is NULL when it does not exist, else <<content>>.  The content of
\* sku_master.csv, demand_daily.csv and inventory_daily.csv is the set of
\* their rows; the content of inventory_txn.csv is its column names and
\* its rows.
TxnColumns ==
    <<"txn_datetime", "date", "sku", "warehouse", "txn_type", "qty",
      "ref_id", "reason_code">>

\* pd.DataFrame(columns=[...]): the table returned for a missing
\* inventory_txn.csv
EmptyTxn == [columns |-> TxnColumns, rows |-> {}]

\* load_data with every FileNotFoundError caught: a missing file is loaded
\* as an empty table
load_data_partial(f) ==
    Some([sku     |-> IF IsNull(f.sku_master) THEN {} ELSE Val(f.sku_master),
          demand  |-> IF IsNull(f.demand_daily)
                      THEN {} ELSE Val(f.demand_daily),
          inv     |-> IF IsNull(f.inventory_daily)
                      THEN {} ELSE Val(f.inventory_daily),
          inv_txn |-> IF IsNull(f.inventory_txn)
                      THEN EmptyTxn ELSE Val(f.inventory_txn)])

\* Sum of the qty column of a set of transaction rows
RECURSIVE SumQty(_)
SumQty(rows) ==
    IF rows = {} THEN 0
    ELSE LET t == CHOOSE x \in rows : TRUE
         IN  t.qty + SumQty(rows \ {t})

\* load_data that books the transactions of a SKU and warehouse into the
\* on-hand quantity of its snapshot rows
load_data_netted(f) ==
    IF IsNull(f.sku_master) \/ IsNull(f.demand_daily)
          \/ IsNull(f.inventory_daily)
    THEN NULL
    ELSE LET txn == IF IsNull(f.inventory_txn)
                    THEN EmptyTxn ELSE Val(f.inventory_txn)
         IN  Some([sku     |-> Val(f.sku_master),
                   demand  |-> Val(f.demand_daily),
                   inv     |-> {[i EXCEPT !.onhand_qty =
                                    Max2(0, @ + SumQty({t \in txn.rows :
                                           /\ t.sku = i.sku
                                           /\ t.warehouse = i.warehouse}))] :
                                   i \in Val(f.inventory_daily)},
                   inv_txn |-> txn])

\* load_data(): NULL stands for the FileNotFoundError that pd.read_csv
\* raises for sku_master.csv, demand_daily.csv or inventory_daily.csv (no
\* value is returned); only the error of inventory_txn.csv is caught
load_data(f) ==
    IF IsNull(f.sku_master) \/ IsNull(f.demand_daily)
          \/ IsNull(f.inventory_daily)
    THEN NULL
    ELSE Some([sku     |-> Val(f.sku_master),
               demand  |-> Val(f.demand_daily),
               inv     |-> Val(f.inventory_daily),
               inv_txn |-> IF IsNull(f.inventory_txn)
                           THEN EmptyTxn ELSE Val(f.inventory_txn)])

\* The files from which the tables of the state were loaded, when there is
\* no transaction file
LoadedFiles ==
    [sku_master      |-> Some(sku_master),
     demand_daily    |-> Some(demand_daily),
     inventory_daily |-> Some(inventory_daily),
     inventory_txn   |-> NULL]

(***************************************************************************)
(* Movements tab: txn_trend_sql and txn_count_sql                          *)
(***************************************************************************)
\* the transaction rows inside the analysis period and the common filters
txn_filtered(mov_range_days) ==
    {t \in inv_txn.rows :
        /\ t.date >= latest_date - mov_range_days
        /\ t.date <= latest_date
        /\ (ss.wh # "ALL" => t.warehouse = ss.wh)
        /\ (ss.sku_pick # "ALL" => t.sku = ss.sku_pick)
        /\ (ss.cat # "ALL" =>
              \E m \in sku_master : m.sku = t.sku /\ m.category = ss.cat)}

\* txn_row_count, sum_in, sum_out and sum_net of the tab
txn_summary_of(mov_range_days) ==
    LET rows == txn_filtered(mov_range_days)
        pos  == SumQty({t \in rows : t.qty > 0})
        neg  == 0 - SumQty({t \in rows : t.qty < 0})
    IN  [txn_row_count |-> Cardinality(rows),
         sum_in        |-> pos,
         sum_out       |-> neg,
         sum_net       |-> pos - neg]

(***************************************************************************)
(* One run of the script                                                   *)
(***************************************************************************)
\* compute_forecast and compute_forecast_metrics, called before the tabs
ForecastStep ==
    /\ pc = "forecast"
    /\ LET f  == compute_forecast(demand_daily, sku_master, inventory_daily,
                                  ss.cat, ss.wh, ss.sku_pick, latest_date,
                                  ss.forecast_horizon_days,
                                  ss.forecast_model_type,
                                  ss.forecast_lookback_days)
           li == {i \in inventory_daily :
                    i.date = latest_date /\ _inv_wh_where(i, ss.wh)}
       IN  /\ forecast_daily' = f
           /\ forecast_metrics_df' =
                IF f # {} /\ li # {}
                THEN compute_forecast_metrics(f, li, ss.forecast_horizon_days,
                                              latest_date)
                ELSE {}
    /\ pc' = "tab_exec"
    /\ UNCHANGED <<inputs, sku_dos, actions_base_ov, health, health_cnt, risk,
                   actions_base,
                   delta_row,
                   hot_issues,
                   mape_pct,
                   mape_n,
                   confidence_hint,
                   sel_shortage_days,
                   sel_over_days,
                   files,
                   load_cache,
                   inv_txn,
                   txn_summary,
                   run,
                   status_rows,
                   out_rows>>

TabExec ==
    /\ pc = "tab_exec"
    /\ sku_dos' = exec_sku_dos(ss.ov_dos_basis_days)
    /\ actions_base_ov' =
          IF forecast_metrics_df # {} /\ forecast_daily # {}
          THEN actions_ov_rows(forecast_daily, forecast_metrics_df,
                               ss.lead_time_days, ss.target_cover_days,
                               ss.safety_stock_days, ss.moq)
          ELSE {}
    /\ delta_row' = Some(delta_sql)
    /\ hot_issues' = hot_issues_of(hot_sql(forecast_metrics_df),
                                   ss.lead_time_days)
    /\ LET bt == compute_mape_backtest(demand_daily,
                        ss.forecast_lookback_days, ss.forecast_model_type,
                        latest_date, 14)
       IN  IF forecast_daily # {}
           THEN /\ mape_pct' = bt.mape_pct
                /\ mape_n' = bt.n
                /\ confidence_hint' = Some(confidence_hint_of(bt.mape_pct))
           ELSE UNCHANGED <<mape_pct, mape_n, confidence_hint>>
    /\ pc' = "tab_health"
    /\ UNCHANGED <<inputs, forecast_daily, forecast_metrics_df, health,
                   health_cnt, risk, actions_base,
                   sel_shortage_days,
                   sel_over_days,
                   files,
                   load_cache,
                   inv_txn,
                   txn_summary,
                   run,
                   status_rows,
                   out_rows>>

\* a selectbox that keeps a stored value that is not one of its options
selectbox_raw(options, stored, second) == stored

\* st.selectbox(options=..., index=options.index(v) if v in options else 1):
\* the stored value when it is one of the options, else the second option
selectbox(options, stored, second) ==
    IF stored \in options THEN stored ELSE second

\* sel_shortage_days and sel_over_days hold the values of the shortage_days
\* and over_days selectboxes of the tab
TabHealth ==
    /\ pc = "tab_health"
    /\ LET health_dos_basis_days ==
               selectbox({7, 14, 30}, ss.health_dos_basis_days, 14)
           sh == selectbox({7, 14, 21}, ss.health_shortage_days, 14)
           ov == selectbox({30, 60, 90, 120}, ss.health_over_days, 60)
       IN  /\ sel_shortage_days' = Some(sh)
           /\ sel_over_days' = Some(ov)
           /\ health' = health_sql_tab(health_dos_basis_days, sh, ov)
    /\ health_cnt' = bucket_counts(health')
    /\ pc' = "tab_stockout"
    /\ UNCHANGED <<inputs, forecast_daily, forecast_metrics_df, sku_dos,
                   actions_base_ov, risk, actions_base,
                   delta_row,
                   hot_issues,
                   mape_pct,
                   mape_n,
                   confidence_hint,
                   files,
                   load_cache,
                   inv_txn,
                   txn_summary,
                   run,
                   status_rows,
                   out_rows>>

TabStockout ==
    /\ pc = "tab_stockout"
    /\ risk' = risk_sql
    /\ pc' = "tab_actions"
    /\ UNCHANGED <<inputs, forecast_daily, forecast_metrics_df, sku_dos,
                   actions_base_ov, health, health_cnt, actions_base,
                   delta_row,
                   hot_issues,
                   mape_pct,
                   mape_n,
                   confidence_hint,
                   sel_shortage_days,
                   sel_over_days,
                   files,
                   load_cache,
                   inv_txn,
                   txn_summary,
                   run,
                   status_rows,
                   out_rows>>

TabActions ==
    /\ pc = "tab_actions"
    /\ LET use_forecast_actions ==
               ss.actions_basis = "forecast" /\ forecast_metrics_df # {}
       IN  actions_base' =
             IF use_forecast_actions
             THEN tab_actions_rows_forecast(forecast_daily,
                      forecast_metrics_df, ss.lead_time_days,
                      ss.target_cover_days, ss.safety_stock_days, ss.moq)
             ELSE tab_actions_rows(ss.lead_time_days, ss.target_cover_days,
                                   ss.safety_stock_days, ss.moq)
    /\ pc' = "tab_movements"
    /\ UNCHANGED <<inputs, forecast_daily, forecast_metrics_df, sku_dos,
                   actions_base_ov, health, health_cnt, risk,
                   delta_row,
                   hot_issues,
                   mape_pct,
                   mape_n,
                   confidence_hint,
                   sel_shortage_days,
                   sel_over_days,
                   files,
                   load_cache,
                   inv_txn,
                   txn_summary,
                   run,
                   status_rows,
                   out_rows>>

\* Movements tab: an info message when there is no transaction row, else
\* the summary of the transactions of the analysis period
TabMovements ==
    /\ pc = "tab_movements"
    /\ txn_summary' =
          IF inv_txn.rows = {} THEN NULL
          ELSE Some(txn_summary_of(
                       selectbox({7, 14, 30, 60, 90}, ss.mov_range_days, 60)))
    /\ pc' = "done"
    /\ UNCHANGED <<inputs, forecast_daily, forecast_metrics_df, sku_dos,
                   actions_base_ov, health, health_cnt, risk, actions_base,
                   delta_row, hot_issues, mape_pct, mape_n, confidence_hint,
                   sel_shortage_days, sel_over_days, files, load_cache,
                   inv_txn, run,
                   status_rows,
                   out_rows>>

\* "sku, demand, inv, inv_txn = load_data()" at the top of the script.
\* st.cache_data keys the memo on the arguments of the call; load_data has
\* none, so any earlier result of the server process is returned.  An
\* exception is not stored and stops the run.
LoadData ==
    /\ pc = "load"
    /\ LET r == IF IsNull(load_cache) THEN load_data(files) ELSE load_cache
       IN  IF IsNull(r)
           THEN /\ pc' = "error"
                /\ UNCHANGED <<sku_master, demand_daily, inventory_daily,
                               inv_txn, load_cache>>
           ELSE /\ sku_master' = Val(r).sku
                /\ demand_daily' = Val(r).demand
                /\ inventory_daily' = Val(r).inv
                /\ inv_txn' = Val(r).inv_txn
                /\ load_cache' = r
                /\ pc' = "forecast"
    /\ UNCHANGED <<ss, forecast_daily, forecast_metrics_df, sku_dos,
                   actions_base_ov, health, health_cnt, risk, actions_base,
                   delta_row, hot_issues, mape_pct, mape_n, confidence_hint,
                   sel_shortage_days, sel_over_days, files, txn_summary,
                   run, status_rows, out_rows>>

\* Everything a run displays
outputs ==
    <<forecast_daily, forecast_metrics_df, sku_dos, actions_base_ov, health,
      health_cnt, risk, actions_base, delta_row, hot_issues, mape_pct,
      mape_n, confidence_hint, sel_shortage_days, sel_over_days,
      txn_summary, status_rows>>

Next ==
    \/ ForecastStep
    \/ TabExec
    \/ TabHealth
    \/ TabStockout
    \/ TabActions
    \/ TabMovements

(***************************************************************************)
(* Input families                                                          *)
(***************************************************************************)
MaxQty == 1

MaxOnhand == 14

\* Widget defaults (st.session_state.get(key, default) / value=);
\* actions_basis "past" is the 14-day-average option, "forecast" the
\* forecast-horizon option
DefaultSS ==
    [cat                   |-> "ALL",
     wh                    |-> "ALL",
     sku_pick              |-> "ALL",
     forecast_horizon_days |-> 14,
     forecast_model_type   |-> "MovingAvg(14)",
     forecast_lookback_days |-> 180,
     ov_dos_basis_days     |-> 14,
     health_dos_basis_days |-> 14,
     health_shortage_days  |-> 14,
     health_over_days      |-> 60,
     lead_time_days        |-> 7,
     target_cover_days     |-> 14,
     safety_stock_days     |-> 3,
     moq                   |-> 0,
     actions_basis         |-> "past",
     mov_range_days        |-> 60]

\* All demand tables of one SKU with at most one row on each of the dates
DemandTables(sku, dates, qtys) ==
    UNION {{{[date |-> d, sku |-> sku, demand_qty |-> f[d]] : d \in D} :
              f \in [D -> qtys]} : D \in SUBSET dates}

\* Dates on both sides of the 7-, 14- and 30-day window boundaries
MetricDates == {0, -7, -13, -14}

Master ==
    {[sku |-> "S1", category |-> "Motor"],
     [sku |-> "S2", category |-> "Brake"]}

EmptyOutputs ==
    /\ pc = "forecast"
    /\ forecast_daily = {}
    /\ forecast_metrics_df = {}
    /\ sku_dos = {}
    /\ actions_base_ov = {}
    /\ health = {}
    /\ health_cnt = bucket_counts({})
    /\ risk = {}
    /\ actions_base = {}
    /\ delta_row = NULL
    /\ hot_issues = {}
    /\ mape_pct = NULL
    /\ mape_n = 0
    /\ confidence_hint = NULL
    /\ sel_shortage_days = NULL
    /\ sel_over_days = NULL
    /\ files = LoadedFiles
    /\ load_cache = load_data(LoadedFiles)
    /\ inv_txn = EmptyTxn
    /\ txn_summary = NULL
    /\ run = 1
    /\ status_rows = {}
    /\ out_rows = <<>>

\* Coverage / classification runs: the demand rows and the on-hand quantity
\* of S1 vary, S2 has neither demand nor stock.
Init ==
    /\ sku_master = Master
    /\ demand_daily \in DemandTables("S1", MetricDates, 0..MaxQty)
    /\ \E q \in 0..MaxOnhand :
          inventory_daily = {[date |-> 0, sku |-> "S1",
                              warehouse |-> "WH-1", onhand_qty |-> q]}
    /\ \E b \in {7, 14}, sh \in {7, 14}, ov \in {30} :
          ss = [DefaultSS EXCEPT !.ov_dos_basis_days = b,
                                 !.health_dos_basis_days = b,
                                 !.health_shortage_days = sh,
                                 !.health_over_days = ov]
    /\ EmptyOutputs

Spec == Init /\ [][Next]_vars

\* Reorder runs: the policy parameters and the MOQ vary.
PolicyDates == {0, -13}

InitReorder ==
    /\ sku_master = Master
    /\ demand_daily \in DemandTables("S1", PolicyDates, 0..MaxQty)
    /\ \E q \in 0..MaxOnhand :
          inventory_daily = {[date |-> 0, sku |-> "S1",
                              warehouse |-> "WH-1", onhand_qty |-> q]}
    /\ \E lt \in {0, 7}, tc \in {0, 14}, sf \in {0, 3}, mq \in {0, 5} :
          ss = [DefaultSS EXCEPT !.lead_time_days = lt,
                                 !.target_cover_days = tc,
                                 !.safety_stock_days = sf,
                                 !.moq = mq]
    /\ EmptyOutputs

SpecReorder == InitReorder /\ [][Next]_vars

\* Forecast runs: the demand history of S1 over the last HistDays days
\* (values of either sign, any day possibly without a row), its on-hand
\* quantity and the forecast model vary.
HistDays == 8

MaxOnhandF == 3

ForecastDates == (1 - HistDays)..0

ForecastQtys == {-1, 1}

\* Dates on both sides of the lookback boundary
OldDates ==
    {latest - DefaultSS.forecast_lookback_days : latest \in {0, 1}}

InitForecast ==
    /\ sku_master = Master
    /\ demand_daily \in
          DemandTables("S1", ForecastDates, ForecastQtys)
            \cup DemandTables("S1", {0} \cup OldDates, ForecastQtys)
    /\ \E q \in 0..MaxOnhandF :
          inventory_daily = {[date |-> 0, sku |-> "S1",
                              warehouse |-> "WH-1", onhand_qty |-> q]}
    /\ \E mt \in {"MovingAvg(7)", "SeasonalNaive(7)"} :
          ss = [DefaultSS EXCEPT !.forecast_model_type = mt]
    /\ EmptyOutputs

\* The forecast tables are complete once ForecastStep has run; the tabs do
\* not write them.
NextForecast == ForecastStep

SpecForecast == InitForecast /\ [][NextForecast]_vars

\* Forecast-metric runs: S1 has stock in one or two warehouses, S2 has demand
\* but possibly no snapshot row; the warehouse filter and the horizon vary.
MaxQtyM == 2

MaxOnhandM == 2

RecentDates == {0, -1, -2}

InitMetrics ==
    /\ sku_master = Master
    /\ \E d1 \in DemandTables("S1", RecentDates, 0..MaxQtyM),
          d2 \in DemandTables("S2", {0}, {1}) :
          demand_daily = d1 \cup d2
    /\ \E q1 \in 0..MaxOnhandM,
          w2 \in SUBSET {[date |-> 0, sku |-> "S1", warehouse |-> "WH-2",
                          onhand_qty |-> 1]},
          w3 \in SUBSET {[date |-> 0, sku |-> "S2", warehouse |-> "WH-2",
                          onhand_qty |-> 1]} :
          inventory_daily =
             {[date |-> 0, sku |-> "S1", warehouse |-> "WH-1",
               onhand_qty |-> q1]} \cup w2 \cup w3
    /\ \E w \in {"ALL", "WH-1"}, h \in {7, 14} :
          ss = [DefaultSS EXCEPT !.wh = w,
                                 !.forecast_horizon_days = h,
                                 !.forecast_model_type = "MovingAvg(7)"]
    /\ EmptyOutputs

SpecMetrics == InitMetrics /\ [][NextForecast]_vars

\* Window runs: S1 has at most one demand row on each day next to a boundary
\* of the 7-, 14- and 30-day windows and on the day after the snapshot.
MaxQtyW == 1

WindowDates == {1, 0, -6, -7, -13, -14, -29, -30}

InitWindow ==
    /\ sku_master = Master
    /\ demand_daily \in DemandTables("S1", WindowDates, 1..MaxQtyW)
    /\ inventory_daily = {[date |-> 0, sku |-> "S1", warehouse |-> "WH-1",
                           onhand_qty |-> 1]}
    /\ \E b \in {7, 14, 30} :
          ss = [DefaultSS EXCEPT !.ov_dos_basis_days = b,
                                 !.health_dos_basis_days = b]
    /\ EmptyOutputs

SpecWindow == InitWindow /\ [][Next]_vars

\* Reason runs: the on-hand quantity, the target cover and the basis of the
\* reorder tab vary.
MaxOnhandR == 30

InitReason ==
    /\ sku_master = Master
    /\ demand_daily \in DemandTables("S1", PolicyDates, {0, 1})
    /\ \E q \in {0, 1} \cup {MaxOnhandR - 16, MaxOnhandR - 6, MaxOnhandR} :
          inventory_daily = {[date |-> 0, sku |-> "S1",
                              warehouse |-> "WH-1", onhand_qty |-> q]}
    /\ \E tc \in {0, 14, 28}, ab \in {"past", "forecast"} :
          ss = [DefaultSS EXCEPT !.target_cover_days = tc,
                                 !.actions_basis = ab]
    /\ EmptyOutputs

SpecReason == InitReason /\ [][Next]_vars

\* Issue runs: S1 sells the same quantity on each of the last n days (n = 0,
\* 14 or 30), so the sum-based and the average-based coverage agree; its
\* on-hand quantity, the SKU filter and the target cover vary; S2 has no
\* demand and possibly one unit in stock.
MaxQtyI == 2

DailyRows(sku, n, q) ==
    {[date |-> -k, sku |-> sku, demand_qty |-> q] : k \in 0..(n - 1)}

InitIssues ==
    /\ sku_master = Master
    /\ \E n \in {0, 14, 30}, q \in 1..MaxQtyI :
          demand_daily = DailyRows("S1", n, q)
    /\ \E q1 \in {0, 5, 20, 70, 100},
          w2 \in SUBSET {[date |-> 0, sku |-> "S2", warehouse |-> "WH-1",
                          onhand_qty |-> 1]} :
          inventory_daily =
             {[date |-> 0, sku |-> "S1", warehouse |-> "WH-1",
               onhand_qty |-> q1]} \cup w2
    /\ \E tc \in {14, 100}, pick \in {"ALL", "S1"} :
          ss = [DefaultSS EXCEPT !.target_cover_days = tc,
                                 !.sku_pick = pick]
    /\ EmptyOutputs

SpecIssues == InitIssues /\ [][Next]_vars

\* Backtest runs: S1 has demand rows next to both ends of the backtest
\* period, S2 has none or five days of unit demand; the model window is 7 or
\* 14 days.  The backtest runs in the Overview tab.
MaxQtyB == 2

BacktestDates == {0, -1, -2, -3, -4, -13, -14}

InitBacktest ==
    /\ sku_master = Master
    /\ \E d1 \in DemandTables("S1", BacktestDates, 1..MaxQtyB),
          d2 \in {{}, DailyRows("S2", 5, 1)} :
          demand_daily = d1 \cup d2
    /\ inventory_daily = {[date |-> 0, sku |-> "S1", warehouse |-> "WH-1",
                           onhand_qty |-> 1]}
    /\ \E mt \in {"MovingAvg(7)", "MovingAvg(14)"} :
          ss = [DefaultSS EXCEPT !.forecast_model_type = mt]
    /\ EmptyOutputs

NextBacktest == ForecastStep \/ TabExec

SpecBacktest == InitBacktest /\ [][NextBacktest]_vars

\* Multi-warehouse runs: S1 is stocked in WH-1 and possibly WH-2, S2 has
\* possibly a current row in WH-1 and an old row in WH-2; the category,
\* warehouse and SKU filters vary.
MaxQtyV == 1

MaxOnhandV == 2

InitWarehouse ==
    /\ sku_master = Master
    /\ \E d1 \in DemandTables("S1", {0, -1}, 0..MaxQtyV),
          d2 \in DemandTables("S2", {0}, {1}) :
          demand_daily = d1 \cup d2
    /\ \E q1 \in 1..MaxOnhandV,
          w2 \in SUBSET {[date |-> 0, sku |-> "S1", warehouse |-> "WH-2",
                          onhand_qty |-> 1]},
          w3 \in SUBSET {[date |-> 0, sku |-> "S2", warehouse |-> "WH-1",
                          onhand_qty |-> 1]},
          w4 \in SUBSET {[date |-> -1, sku |-> "S2", warehouse |-> "WH-2",
                          onhand_qty |-> 1]} :
          inventory_daily =
             {[date |-> 0, sku |-> "S1", warehouse |-> "WH-1",
               onhand_qty |-> q1]} \cup w2 \cup w3 \cup w4
    /\ \E c \in {"ALL", "Motor"}, w \in {"ALL", "WH-1", "WH-2"},
          p \in {"ALL", "S2"} :
          ss = [DefaultSS EXCEPT !.cat = c, !.wh = w, !.sku_pick = p,
                                 !.forecast_horizon_days = 7,
                                 !.forecast_model_type = "MovingAvg(7)"]
    /\ EmptyOutputs

SpecWarehouse == InitWarehouse /\ [][Next]_vars

\* Threshold runs: the session state holds, for the shortage and overstock
\* selectboxes, one of the options or a value that is not an option
\* (45 for shortage, 10 for overstock); demand and on-hand of S1 vary.
InitThresholds ==
    /\ sku_master = Master
    /\ demand_daily \in DemandTables("S1", {0, -1}, {1})
    /\ \E q \in {0, 10, 25, 70} :
          inventory_daily = {[date |-> 0, sku |-> "S1",
                              warehouse |-> "WH-1", onhand_qty |-> q]}
    /\ \E sh \in {7, 14, 21, 45}, ov \in {10, 30, 60, 90, 120} :
          ss = [DefaultSS EXCEPT !.health_shortage_days = sh,
                                 !.health_over_days = ov]
    /\ EmptyOutputs

SpecThresholds == InitThresholds /\ [][Next]_vars

(***************************************************************************)
(* Sessions: several runs of the script in one server process              *)
(***************************************************************************)
\* The inputs of the later runs of the session: between two runs a file may
\* be replaced, created or deleted
FileVersions ==
    [sku_master      |-> {NULL, Some(Master)},
     demand_daily    |-> {NULL, Some(DailyRows("S1", 2, 1)),
                                Some(DailyRows("S1", 2, 2))},
     inventory_daily |-> {NULL, Some({[date |-> 0, sku |-> "S1",
                                       warehouse |-> "WH-1",
                                       onhand_qty |-> 5]})},
     inventory_txn   |->
        {NULL,
         Some([columns |-> TxnColumns,
               rows |-> {[date |-> 0, sku |-> "S1", warehouse |-> "WH-1",
                          txn_type |-> "IN", qty |-> 3, ref_id |-> 1]}]),
         Some([columns |-> TxnColumns,
               rows |-> {[date |-> 0, sku |-> "S1", warehouse |-> "WH-1",
                          txn_type |-> "IN", qty |-> 3, ref_id |-> 1],
                         [date |-> -1, sku |-> "S1", warehouse |-> "WH-1",
                          txn_type |-> "OUT", qty |-> -2, ref_id |-> 2]}])}]

\* Environment: a file of the working directory is written or deleted
\* after a run
WriteFile ==
    /\ pc \in {"done", "error"}
    /\ \E name \in DOMAIN FileVersions : \E c \in FileVersions[name] :
          /\ c # files[name]
          /\ files' = [files EXCEPT ![name] = c]
    /\ UNCHANGED <<sku_master, demand_daily, inventory_daily, ss, pc,
                   outputs, load_cache, inv_txn, run, out_rows>>

\* Environment: only inventory_txn.csv is written or deleted after a run
WriteTxn ==
    /\ pc \in {"done", "error"}
    /\ \E c \in FileVersions.inventory_txn :
          /\ c # files.inventory_txn
          /\ files' = [files EXCEPT !.inventory_txn = c]
    /\ UNCHANGED <<sku_master, demand_daily, inventory_daily, ss, pc,
                   outputs, load_cache, inv_txn, run, out_rows>>

\* Environment: the memo of st.cache_data is emptied (Clear cache, or a
\* new server process)
ClearCache ==
    /\ pc \in {"done", "error"}
    /\ ~IsNull(load_cache)
    /\ load_cache' = NULL
    /\ UNCHANGED <<inputs, pc, outputs, files, inv_txn, run,
                   out_rows>>

MaxRuns == 2

\* The script runs again from the top; what the previous run displayed
\* stays until the new run replaces it
Rerun ==
    /\ pc \in {"done", "error"}
    /\ run < MaxRuns
    /\ run' = run + 1
    /\ pc' = "load"
    /\ UNCHANGED <<inputs, outputs, files, load_cache, inv_txn,
                   out_rows>>

\* Before the first run: nothing is loaded or displayed, the memo is empty
NothingLoaded ==
    /\ sku_master = {}
    /\ demand_daily = {}
    /\ inventory_daily = {}
    /\ inv_txn = EmptyTxn
    /\ load_cache = NULL
    /\ run = 1
    /\ forecast_daily = {}
    /\ forecast_metrics_df = {}
    /\ sku_dos = {}
    /\ actions_base_ov = {}
    /\ health = {}
    /\ health_cnt = bucket_counts({})
    /\ risk = {}
    /\ actions_base = {}
    /\ delta_row = NULL
    /\ hot_issues = {}
    /\ mape_pct = NULL
    /\ mape_n = 0
    /\ confidence_hint = NULL
    /\ sel_shortage_days = NULL
    /\ sel_over_days = NULL
    /\ txn_summary = NULL
    /\ status_rows = {}
    /\ out_rows = <<>>

\* Sessions over any combination of present and missing files
InitSession ==
    /\ files \in [sku_master      : FileVersions.sku_master,
                  demand_daily    : FileVersions.demand_daily,
                  inventory_daily : FileVersions.inventory_daily,
                  inventory_txn   : FileVersions.inventory_txn]
    /\ ss = DefaultSS
    /\ pc = "load"
    /\ NothingLoaded

NextSession ==
    \/ LoadData
    \/ ForecastStep
    \/ TabExec
    \/ TabHealth
    \/ TabStockout
    \/ TabActions
    \/ TabMovements
    \/ WriteFile
    \/ ClearCache
    \/ Rerun

SpecSession == InitSession /\ [][NextSession]_vars

\* Sessions in which the three required files are present and never change
\* and the transaction file, missing at first, is written between the runs;
\* the warehouse and SKU filters vary
InitTxn ==
    /\ files \in [sku_master      : {Some(Master)},
                  demand_daily    : FileVersions.demand_daily \ {NULL},
                  inventory_daily : FileVersions.inventory_daily \ {NULL},
                  inventory_txn   : {NULL}]
    /\ \E w \in {"ALL", "WH-1", "WH-2"}, p \in {"ALL", "S1"} :
          ss = [DefaultSS EXCEPT !.wh = w, !.sku_pick = p]
    /\ pc = "load"
    /\ NothingLoaded

NextTxn ==
    \/ LoadData
    \/ ForecastStep
    \/ TabExec
    \/ TabHealth
    \/ TabStockout
    \/ TabActions
    \/ TabMovements
    \/ WriteTxn
    \/ ClearCache
    \/ Rerun

SpecTxn == InitTxn /\ [][NextTxn]_vars

(***************************************************************************)
(* Combined operational status (urgency badges)                            *)
(***************************************************************************)
\* The three-way split with the lead-time boundary put in Urgent
status_split_le(days10, lead_time_days, shortage_threshold) ==
    IF days10 <= 10 * lead_time_days THEN "Urgent"
    ELSE IF days10 < 10 * shortage_threshold THEN "Watch"
    ELSE "Stable"

\* The three-way split of a number of days (in tenths): below the lead time
\* Urgent, from the lead time up to the shortage threshold Watch, else Stable
status_split(days10, lead_time_days, shortage_threshold) ==
    IF days10 < 10 * lead_time_days THEN "Urgent"
    ELSE IF days10 < 10 * shortage_threshold THEN "Watch"
    ELSE "Stable"

\* Status of a SKU: by its coverage when defined; else by the days up to
\* its forecast stockout date when there is one; else no status
operational_status(coverage_days, stockout_date, lead_time_days, shortage_threshold) ==
    IF ~IsNull(coverage_days)
    THEN Some(status_split(Val(coverage_days), lead_time_days,
                           shortage_threshold))
    ELSE IF ~IsNull(stockout_date)
    THEN Some(status_split(10 * (Val(stockout_date) - latest_date),
                           lead_time_days, shortage_threshold))
    ELSE NULL

\* The badge of every SKU of the Overview coverage table
StatusBadges ==
    /\ pc = "tab_health"
    /\ status_rows' =
          {[sku           |-> r.sku,
            coverage_days |-> r.coverage_days,
            status        |->
               operational_status(
                  r.coverage_days,
                  IF \E m \in forecast_metrics_df : m.sku = r.sku
                  THEN (CHOOSE m \in forecast_metrics_df :
                           m.sku = r.sku).stockout_date_forecast
                  ELSE NULL,
                  ss.lead_time_days,
                  selectbox({7, 14, 21}, ss.health_shortage_days, 14))] :
              r \in sku_dos}
    /\ pc' = "done"
    /\ UNCHANGED <<inputs, forecast_daily, forecast_metrics_df, sku_dos,
                   actions_base_ov, health, health_cnt, risk, actions_base,
                   delta_row, hot_issues, mape_pct, mape_n, confidence_hint,
                   sel_shortage_days, sel_over_days, txn_summary, files,
                   load_cache, inv_txn, run,
                   out_rows>>

MaxOnhandS == 25

\* Status runs: S1 sells 1 a day over the last 14 days, or sold 1 unit 20
\* days ago, or never; its on-hand, the lead time and the shortage
\* threshold vary.
InitStatus ==
    /\ sku_master = Master
    /\ demand_daily \in {DailyRows("S1", 14, 1),
                         {[date |-> -20, sku |-> "S1", demand_qty |-> 1]},
                         {}}
    /\ \E q \in 0..MaxOnhandS :
          inventory_daily = {[date |-> 0, sku |-> "S1",
                              warehouse |-> "WH-1", onhand_qty |-> q]}
    /\ \E lt \in {0, 7, 14, 30}, sh \in {7, 14, 21} :
          ss = [DefaultSS EXCEPT !.lead_time_days = lt,
                                 !.health_shortage_days = sh,
                                 !.forecast_horizon_days = 30,
                                 !.forecast_model_type = "MovingAvg(7)"]
    /\ EmptyOutputs

NextStatus ==
    \/ ForecastStep
    \/ TabExec
    \/ StatusBadges

SpecStatus == InitStatus /\ [][NextStatus]_vars

(***************************************************************************)
(* Transaction generators: generate_inventory_txn.py and make_inv_txn.py   *)
(***************************************************************************)
\* A run of a generator appends rows to out_rows (rows in
\* generate_inventory_txn.py) and writes inventory_txn.csv at the end.  The
\* inventory deltas, the demand quantities and the random draws are the
\* inputs of the steps.  The row caps of the scripts (800 and 600 rows) lie
\* beyond the runs explored.
MaxDelta == 7

MaxTxnRows == 2

Min2(a, b) == IF a < b THEN a ELSE b

\* np.random.randint(lo, hi): lo <= value < hi
randint(lo, hi) == lo..(hi - 1)

\* One generated row; ref_id continues from the rows already there
txn_row(wh, txn_type, qty, reason_code, ref_id) ==
    [date |-> 0, sku |-> "S1", warehouse |-> wh, txn_type |-> txn_type,
     qty |-> qty, ref_id |-> ref_id, reason_code |-> reason_code]

\* "for _ in range(n_txns)" of the delta loop: the amounts into which a
\* positive remainder is split, amt = max(1, min(remain, randint(5, max(6,
\* remain // 2 + 1))))
RECURSIVE split_amounts(_, _)
split_amounts(remain, n_txns) ==
    IF n_txns = 0 \/ remain <= 0 THEN {<<>>}
    ELSE UNION {{<<Max2(1, Min2(remain, r))>> \o s :
                    s \in split_amounts(remain - Max2(1, Min2(remain, r)),
                                        n_txns - 1)} :
                  r \in randint(5, Max2(6, (remain \div 2) + 1))}

\* rows of the amounts of a split, with sign +1 (IN) or -1 (OUT)
RECURSIVE split_rows(_, _, _, _)
split_rows(amts, wh, sign, ref_id) ==
    IF amts = <<>> THEN <<>>
    ELSE <<txn_row(wh, IF sign > 0 THEN "IN" ELSE "OUT", sign * Head(amts),
                   IF sign > 0 THEN "RCV" ELSE "SALE", ref_id)>>
         \o split_rows(Tail(amts), wh, sign, ref_id + 1)

\* generate_inventory_txn.py, body of the loop over inv_sorted
gen_delta_rows(delta, wh, amts, ref_id) ==
    IF delta > 0 THEN split_rows(amts, wh, 1, ref_id)
    ELSE IF delta < 0 THEN split_rows(amts, wh, -1, ref_id)
    ELSE <<>>

\* generate_inventory_txn.py, demand loop: one OUT row for a warehouse,
\* amt = max(1, min(out_per_wh + randint(0, 5), dmd))
gen_demand_row(dmd, n_whs, wh, r, ref_id) ==
    txn_row(wh, "OUT",
            0 - Max2(1, Min2(Max2(1, dmd \div n_whs) + r, dmd)),
            "SALE", ref_id)

\* the quantity of an extra row with every type kept positive
gen_extra_qty_unsigned(txn_type, qty, negate) == qty

\* generate_inventory_txn.py, quantity of an ADJUST / RETURN / SCRAP row
gen_extra_qty(txn_type, qty, negate) ==
    IF txn_type = "ADJUST" THEN (IF negate THEN 0 - qty ELSE qty)
    ELSE IF txn_type = "RETURN" THEN qty
    ELSE 0 - qty

\* reason_codes[txn_types_all.index(txn_type)]
gen_reason_code(txn_type) ==
    CASE txn_type = "ADJUST" -> "RTV"
      [] txn_type = "RETURN" -> "SCRAP"
      [] txn_type = "SCRAP"  -> "CYCLE"

\* generate_inventory_txn.py: one row of inv_sorted with a previous day
GenDeltaTxns ==
    /\ pc = "gen_deltas"
    /\ \E delta \in (0 - MaxDelta)..MaxDelta, n_txns \in randint(1, 4),
          wh \in {"WH-1", "WH-2"}, more \in BOOLEAN :
          \E amts \in split_amounts(Abs(delta), n_txns) :
             /\ out_rows' = out_rows \o
                   gen_delta_rows(delta, wh, amts, 10000 + Len(out_rows))
             /\ Len(out_rows') <= MaxTxnRows
             /\ pc' = IF more THEN "gen_deltas" ELSE "gen_demand"
    /\ UNCHANGED <<inputs, outputs, files, load_cache, inv_txn, run>>

\* generate_inventory_txn.py: one row of demand_by_date_sku; a row per
\* warehouse of whs[:2]
GenDemandTxns ==
    /\ pc = "gen_demand"
    /\ \E demand_qty \in {0, 1, 2, 30, 31}, n_whs \in {1, 2},
          r1 \in {0, 4}, r2 \in {0, 4}, more \in BOOLEAN :
          /\ out_rows' =
                IF demand_qty <= 0 THEN out_rows
                ELSE IF n_whs = 1
                THEN Append(out_rows,
                        gen_demand_row(demand_qty, 1, "WH-1", r1,
                                       10000 + Len(out_rows)))
                ELSE out_rows \o
                     <<gen_demand_row(demand_qty, 2, "WH-1", r1,
                                      10000 + Len(out_rows)),
                       gen_demand_row(demand_qty, 2, "WH-2", r2,
                                      10001 + Len(out_rows))>>
          /\ Len(out_rows') <= MaxTxnRows
          /\ pc' = IF more THEN "gen_demand" ELSE "gen_extra"
    /\ UNCHANGED <<inputs, outputs, files, load_cache, inv_txn, run>>

\* generate_inventory_txn.py: one of the 80 ADJUST / RETURN / SCRAP rows
GenExtraTxn ==
    /\ pc = "gen_extra"
    /\ \E txn_type \in {"ADJUST", "RETURN", "SCRAP"}, qty \in {1, 14},
          negate \in BOOLEAN, wh \in {"WH-1", "WH-2"}, more \in BOOLEAN :
          /\ out_rows' =
                Append(out_rows,
                       txn_row(wh, txn_type,
                               gen_extra_qty(txn_type, qty, negate),
                               gen_reason_code(txn_type),
                               10000 + Len(out_rows)))
          /\ Len(out_rows') <= MaxTxnRows
          /\ pc' = IF more THEN "gen_extra" ELSE "write"
    /\ UNCHANGED <<inputs, outputs, files, load_cache, inv_txn, run>>

\* make_inv_txn.py, emit(): the row appended for a type, quantity and reason
emit(wh, txn_type, qty, reason) ==
    Append(out_rows, txn_row(wh, txn_type, qty, reason,
                             10001 + Len(out_rows)))

\* make_inv_txn.py: one entry of deltas (delta # 0)
MakeDeltaTxn ==
    /\ pc = "mk_deltas"
    /\ \E delta \in ((0 - MaxDelta)..MaxDelta) \ {0},
          wh \in {"WH-1", "WH-2"}, more \in BOOLEAN :
          /\ out_rows' = IF delta > 0
                         THEN emit(wh, "IN", delta, "RCV")
                         ELSE emit(wh, "OUT", delta, "SALE")
          /\ Len(out_rows') <= MaxTxnRows
          /\ pc' = IF more THEN "mk_deltas" ELSE "mk_demand"
    /\ UNCHANGED <<inputs, outputs, files, load_cache, inv_txn, run>>

\* make_inv_txn.py: one entry of demand_by_ds; an OUT row of -min(qty, 30)
\* for each of the two warehouses
MakeDemandTxns ==
    /\ pc = "mk_demand"
    /\ \E qty \in {0, 1, 2, 30, 31}, more \in BOOLEAN :
          /\ out_rows' =
                IF qty <= 0 THEN out_rows
                ELSE out_rows \o
                     <<txn_row("WH-1", "OUT", 0 - Min2(qty, 30), "SALE",
                               10001 + Len(out_rows)),
                       txn_row("WH-2", "OUT", 0 - Min2(qty, 30), "SALE",
                               10002 + Len(out_rows))>>
          /\ Len(out_rows') <= MaxTxnRows
          /\ pc' = IF more THEN "mk_demand" ELSE "mk_extra"
    /\ UNCHANGED <<inputs, outputs, files, load_cache, inv_txn, run>>

\* make_inv_txn.py: one of the 60 rows drawn from (ADJUST, 1),
\* (ADJUST, -1), (RETURN, 1), (SCRAP, -1) with quantity 5 + randint(0, 10)
MakeExtraTxn ==
    /\ pc = "mk_extra"
    /\ \E t \in {<<"ADJUST", 1>>, <<"ADJUST", -1>>, <<"RETURN", 1>>,
                 <<"SCRAP", -1>>},
          r \in {0, 10}, wh \in {"WH-1", "WH-2"}, more \in BOOLEAN :
          /\ out_rows' = emit(wh, t[1], t[2] * (5 + r),
                              CASE t[1] = "ADJUST" -> "ADJ"
                                [] t[1] = "RETURN" -> "RET"
                                [] t[1] = "SCRAP"  -> "SCR")
          /\ Len(out_rows') <= MaxTxnRows
          /\ pc' = IF more THEN "mk_extra" ELSE "write"
    /\ UNCHANGED <<inputs, outputs, files, load_cache, inv_txn, run>>

\* df.to_csv("inventory_txn.csv") / csv.DictWriter: the file is replaced by
\* the generated rows
WriteTxnFile ==
    /\ pc = "write"
    /\ files' = [files EXCEPT !.inventory_txn =
                    Some([columns |-> TxnColumns,
                          rows |-> {out_rows[i] : i \in DOMAIN out_rows}])]
    /\ pc' = "written"
    /\ UNCHANGED <<sku_master, demand_daily, inventory_daily, ss, outputs,
                   load_cache, inv_txn, run, out_rows>>

\* A generator starts with the three input files present and no row
InitGenerate ==
    /\ sku_master = {}
    /\ demand_daily = {}
    /\ inventory_daily = {}
    /\ ss = DefaultSS
    /\ files = [sku_master      |-> Some(Master),
                demand_daily    |-> Some(DailyRows("S1", 2, 1)),
                inventory_daily |-> Some({[date |-> 0, sku |-> "S1",
                                           warehouse |-> "WH-1",
                                           onhand_qty |-> 5]}),
                inventory_txn   |-> NULL]
    /\ pc \in {"gen_deltas", "mk_deltas"}
    /\ NothingLoaded


NextGenerate ==
    \/ GenDeltaTxns
    \/ GenDemandTxns
    \/ GenExtraTxn
    \/ MakeDeltaTxn
    \/ MakeDemandTxns
    \/ MakeExtraTxn
    \/ WriteTxnFile

SpecGenerate == InitGenerate /\ [][NextGenerate]_vars

\* Forecast-table runs: S1 has demand rows on the reference date, on both
\* sides of the lookback boundary and after the reference date; S2 has one
\* demand row or none and possibly no stock in the filtered warehouse; the
\* category and warehouse filters, the horizon and the model vary.
TableDates ==
    {1, 0, 0 - DefaultSS.forecast_lookback_days,
     0 - DefaultSS.forecast_lookback_days - 1}

InitTable ==
    /\ sku_master = Master
    /\ \E d1 \in DemandTables("S1", TableDates, {1}),
          d2 \in DemandTables("S2", {0}, {1}) :
          demand_daily = d1 \cup d2
    /\ \E w2 \in SUBSET {[date |-> 0, sku |-> "S2", warehouse |-> "WH-2",
                          onhand_qty |-> 1]} :
          inventory_daily =
             {[date |-> 0, sku |-> "S1", warehouse |-> "WH-1",
               onhand_qty |-> 1]} \cup w2
    /\ \E c \in {"ALL", "Motor"}, w \in {"ALL", "WH-2"}, h \in {7, 14},
          mt \in {"MovingAvg(7)", "SeasonalNaive(7)"} :
          ss = [DefaultSS EXCEPT !.cat = c, !.wh = w,
                                 !.forecast_horizon_days = h,
                                 !.forecast_model_type = mt]
    /\ EmptyOutputs

SpecTable == InitTable /\ [][NextForecast]_vars

(***************************************************************************)
(* Coverage and classification properties                                  *)
(***************************************************************************)
\* Total demand of a SKU over the n calendar days ending at the reference
\* date, a day without a row counting as zero.
WindowTotal(sku, n) ==
    SumDemand({d \in demand_daily :
                 d.sku = sku /\ d.date \in (latest_date - n + 1)..latest_date})

\* x / y rounded half-up to one decimal, in tenths (x >= 0, y > 0)
HalfUpTenths(x, y) == (20 * x + y) \div (2 * y)

\* C1: coverage_days is undefined exactly when the trailing window demand is
\* zero and a defined number otherwise; with on-hand 0 and positive window
\* demand it is the defined value 0.0 (Overview sku_dos and compute_dos).
DefinedIffDemand(cov, onhand_qty, total) ==
    /\ IsNull(cov) <=> (total = 0)
    /\ (total > 0) => (Val(cov) \in Nat)
    /\ (onhand_qty = 0 /\ total > 0) => (cov = Some(0))

C1_UndefinedIffNoDemand ==
    /\ \A r \in sku_dos :
          LET n     == ss.ov_dos_basis_days
              total == WindowTotal(r.sku, n)
          IN  /\ r.onhand_qty >= 0 /\ total >= 0
              /\ DefinedIffDemand(r.coverage_days, r.onhand_qty, total)
              /\ DefinedIffDemand(
                    compute_dos(r.onhand_qty, Some(Rat(total, n))),
                    r.onhand_qty, total)
    /\ \A r \in health :
          DefinedIffDemand(r.coverage_days, r.onhand_qty,
                           WindowTotal(r.sku, ss.health_dos_basis_days))
    /\ \A r \in risk \cup actions_base :
          DefinedIffDemand(r.coverage_days, r.onhand_qty,
                           WindowTotal(r.sku, 14))

C1_Witness ==
    /\ pc = "done"
    /\ \E r \in sku_dos :
          r.onhand_qty = 0 /\ r.demand_Nd > 0 /\ r.coverage_days = Some(0)
    /\ \E r \in sku_dos : IsNull(r.coverage_days)

\* C2: in every view that reports coverage_days, when the trailing N-day
\* demand total is positive, coverage_days = round(onhand_qty * N / total, 1)
\* with total summed over the N calendar days (a missing day counts zero).
C2_CoverageFormulaEveryView ==
    /\ \A r \in sku_dos :
          WindowTotal(r.sku, ss.ov_dos_basis_days) > 0 =>
             r.coverage_days =
                Some(HalfUpTenths(r.onhand_qty * ss.ov_dos_basis_days,
                                  WindowTotal(r.sku, ss.ov_dos_basis_days)))
    /\ \A r \in health :
          WindowTotal(r.sku, ss.health_dos_basis_days) > 0 =>
             r.coverage_days =
                Some(HalfUpTenths(r.onhand_qty * ss.health_dos_basis_days,
                                  WindowTotal(r.sku, ss.health_dos_basis_days)))
    /\ \A r \in risk \cup actions_base :
          WindowTotal(r.sku, 14) > 0 =>
             r.coverage_days =
                Some(HalfUpTenths(r.onhand_qty * 14, WindowTotal(r.sku, 14)))

\* C3: undefined => Low; coverage < 3 => Critical; 3 <= coverage < 7 => High;
\* 7 <= coverage < 14 => Medium; coverage >= 14 => Low.
C3_RiskLevel ==
    \A r \in risk :
       LET c == r.coverage_days
       IN  /\ IsNull(c) => r.risk_level = "Low"
           /\ ~IsNull(c) =>
                /\ (Val(c) < 30) <=> (r.risk_level = "Critical")
                /\ (30 <= Val(c) /\ Val(c) < 70) <=> (r.risk_level = "High")
                /\ (70 <= Val(c) /\ Val(c) < 140) <=> (r.risk_level = "Medium")
                /\ (140 <= Val(c)) <=> (r.risk_level = "Low")

C3_Witness ==
    /\ pc = "done"
    /\ \E r \in risk : r.coverage_days = Some(30) /\ r.risk_level = "High"
    /\ \E r \in risk : IsNull(r.coverage_days) /\ r.risk_level = "Low"

\* C4: every health record gets exactly one of NoDemand, Shortage, Overstock,
\* Adequate by the threshold rules, and the four counts sum to the number of
\* records.
C4_Bucket ==
    /\ \A r \in health :
          LET c  == r.coverage_days
              sh == 10 * ss.health_shortage_days
              ov == 10 * ss.health_over_days
          IN  /\ r.bucket \in {"NoDemand", "Shortage", "Overstock", "Adequate"}
              /\ (r.bucket = "NoDemand") <=> IsNull(c)
              /\ ~IsNull(c) =>
                   /\ (r.bucket = "Shortage") <=> (Val(c) < sh)
                   /\ (r.bucket = "Overstock") <=> (Val(c) > ov)
                   /\ (r.bucket = "Adequate") <=> (sh <= Val(c) /\ Val(c) <= ov)
    /\ health_cnt.cnt_nodemand + health_cnt.cnt_short
         + health_cnt.cnt_over + health_cnt.cnt_ok
         = Cardinality(health)
    /\ health_cnt.total_sku = Cardinality(health)

C4_Witness ==
    /\ pc = "done"
    /\ \E r \in health :
          /\ r.coverage_days = Some(10 * ss.health_shortage_days)
          /\ r.bucket = "Adequate"
    /\ \E r \in health : r.bucket = "NoDemand"
    /\ health_cnt.cnt_ok = 1 /\ health_cnt.cnt_nodemand = 1
    /\ health_cnt.total_sku = 2

(***************************************************************************)
(* Reorder policy properties                                               *)
(***************************************************************************)
PolicyDays ==
    ss.lead_time_days + ss.target_cover_days + ss.safety_stock_days

\* t is an integer nearest to p / q (q > 0)
IsNearestInt(t, p, q) == 2 * Abs(p - t * q) <= q

\* C5: the recommended order quantity is a non-negative integer and is 0
\* whenever onhand_qty >= target_stock, target_stock being
\* avg_daily_demand * (lead + target cover + safety) rounded to an integer.
C5_ReorderNonNegative ==
    \A r \in actions_base :
       /\ r.target_stock \in Int
       /\ IsNearestInt(r.target_stock,
                       r.avg_daily_demand_14d.n * PolicyDays,
                       r.avg_daily_demand_14d.d)
       /\ r.recommended_order_qty \in Nat
       /\ (r.onhand_qty >= r.target_stock) => (r.recommended_order_qty = 0)

C5_Witness ==
    /\ pc = "done"
    /\ ss.moq > 0
    /\ \E r \in actions_base :
          /\ r.target_stock > 0
          /\ r.onhand_qty > r.target_stock
          /\ r.recommended_order_qty = 0

\* C6: a zero raw order stays 0 for every MOQ; with MOQ > 0 and raw order > 0
\* the result is max(raw order, MOQ); with MOQ = 0 it is the raw order; and
\* clamping the result again changes nothing.
C6_MoqClamp ==
    \A r \in actions_base \cup actions_base_ov :
       LET raw == IF r.target_stock > r.onhand_qty
                  THEN r.target_stock - r.onhand_qty ELSE 0
           rec == r.recommended_order_qty
       IN  /\ (raw = 0) => (rec = 0)
           /\ (ss.moq > 0 /\ raw > 0) =>
                 (rec >= raw /\ rec >= ss.moq /\ rec \in {raw, ss.moq})
           /\ (ss.moq = 0) => (rec = raw)
           /\ moq_clamp(rec, ss.moq) = rec

C6_Witness ==
    /\ pc = "done"
    /\ ss.moq > 0
    /\ \E r \in actions_base :
          /\ r.target_stock > r.onhand_qty
          /\ r.target_stock - r.onhand_qty < ss.moq
          /\ r.recommended_order_qty = ss.moq
    /\ \E r \in actions_base_ov :
          /\ r.target_stock > r.onhand_qty
          /\ r.target_stock - r.onhand_qty < ss.moq
          /\ r.recommended_order_qty = ss.moq

(***************************************************************************)
(* Forecast properties                                                     *)
(***************************************************************************)
ModelMethod == parse_model_type(ss.forecast_model_type).method

ModelParam == parse_model_type(ss.forecast_model_type).param

\* Demand rows of a SKU visible to the forecast (within the lookback)
History(sku) ==
    {d \in demand_daily :
        /\ d.sku = sku
        /\ d.date >= latest_date - ss.forecast_lookback_days
        /\ d.date <= latest_date}

ForecastOf(sku) == {r \in forecast_daily : r.sku = sku}

ForecastSkus == {r.sku : r \in forecast_daily}

HorizonDates ==
    (latest_date + 1)..(latest_date + ss.forecast_horizon_days)

\* the float q equals max(0, p / c) for integers p and c > 0
IsFlooredQuotient(q, p, c) ==
    IF p > 0 THEN q.n * c = p * q.d ELSE q.n = 0

\* C7: every forecast_qty is >= 0, under both models and for demand
\* histories that contain negative values.
C7_ForecastFloor ==
    \A r \in forecast_daily : r.forecast_qty.n >= 0 /\ r.forecast_qty.d > 0

C7_Witness ==
    /\ ModelMethod = "SeasonalNaive"
    /\ \E d \in demand_daily : d.demand_qty < 0
    /\ \E r \in forecast_daily : r.forecast_qty.n = 0
    /\ \E r \in forecast_daily : r.forecast_qty.n > 0

\* C8: under MovingAvg(N) the forecast of a SKU is the same on every day of
\* the horizon and equals the mean of its demand over the trailing N calendar
\* days ending at the reference date (within the lookback).
C8_MovingAvgCalendarMean ==
    (ModelMethod = "MovingAvg") =>
       \A s \in ForecastSkus :
          LET w == {d \in History(s) : d.date > latest_date - ModelParam}
          IN  /\ w # {}
              /\ \A r \in ForecastOf(s) :
                    IsFlooredQuotient(r.forecast_qty, SumDemand(w),
                                      Cardinality(w))

CumForecast(sku, dt) == SumForecast({r \in ForecastOf(sku) : r.date <= dt})

C10_StockoutDate ==
    \A m \in forecast_metrics_df :
       LET exceeds(dt) == RatLess(Rat(m.onhand_qty, 1), CumForecast(m.sku, dt))
           total       == SumForecast(ForecastOf(m.sku))
           sd          == m.stockout_date_forecast
       IN  /\ IsNull(sd) <=> ~RatLess(Rat(m.onhand_qty, 1), total)
           /\ ~IsNull(sd) =>
                /\ Val(sd) \in HorizonDates
                /\ exceeds(Val(sd))
                /\ \A dt \in HorizonDates : dt < Val(sd) => ~exceeds(dt)

C10_Witness ==
    \E m \in forecast_metrics_df :
       /\ m.onhand_qty > 0
       /\ ~IsNull(m.stockout_date_forecast)
       /\ Val(m.stockout_date_forecast) > latest_date + 2
       /\ RatEq(CumForecast(m.sku, Val(m.stockout_date_forecast) - 1),
                Rat(m.onhand_qty, 1))

\* C11: for a fixed forecast curve the stockout date is monotone in on-hand
\* stock: with more on-hand it is never earlier, and once it is undefined it
\* stays undefined for every larger on-hand.
MoreOnhand(q) == {q + 1, q + 2, q + ss.forecast_horizon_days}

C11_StockoutMonotone ==
    \A m \in forecast_metrics_df :
       \A q2 \in MoreOnhand(m.onhand_qty) :
          LET sd1 == m.stockout_date_forecast
              sd2 == stockout_date_forecast(ForecastOf(m.sku), q2)
          IN  /\ IsNull(sd1) => IsNull(sd2)
              /\ (~IsNull(sd1) /\ ~IsNull(sd2)) => Val(sd2) >= Val(sd1)

C11_Witness ==
    \E m \in forecast_metrics_df :
       /\ m.onhand_qty > 0
       /\ ~IsNull(m.stockout_date_forecast)
       /\ LET sd2 == stockout_date_forecast(ForecastOf(m.sku),
                                            m.onhand_qty + 1)
          IN  ~IsNull(sd2) /\ Val(sd2) > Val(m.stockout_date_forecast) + 1
       /\ IsNull(stockout_date_forecast(ForecastOf(m.sku),
                     m.onhand_qty + ss.forecast_horizon_days))

\* C12 (as stated): forecast_avg_daily equals the horizon total divided by
\* horizon_days; forecast_dos is undefined exactly when forecast_avg_daily is
\* zero, otherwise onhand_qty / forecast_avg_daily rounded to one decimal,
\* onhand_qty being the sum over the matching warehouses (0 with no snapshot
\* row).
MatchingOnhand(sku) == SumOnhand(latest_inv_rows(sku))

DosOfAvg(m) ==
    /\ m.onhand_qty = MatchingOnhand(m.sku)
    /\ IsNull(m.forecast_dos) <=> (m.forecast_avg_daily = 0)
    /\ ~IsNull(m.forecast_dos) =>
          IsNearestInt(Val(m.forecast_dos), 1000 * m.onhand_qty,
                       m.forecast_avg_daily)

C12_ForecastDosExactAvg ==
    \A m \in forecast_metrics_df :
       LET total == SumForecast(ForecastOf(m.sku))
       IN  /\ m.forecast_avg_daily * total.d * ss.forecast_horizon_days
                = 100 * total.n
           /\ DosOfAvg(m)

\* C12 (amended): forecast_avg_daily is the horizon total divided by
\* horizon_days rounded to two decimals, and forecast_dos is derived from
\* that rounded value as above.
C12_ForecastDos ==
    \A m \in forecast_metrics_df :
       LET total == SumForecast(ForecastOf(m.sku))
       IN  /\ IsNearestInt(m.forecast_avg_daily, 100 * total.n,
                           total.d * ss.forecast_horizon_days)
           /\ DosOfAvg(m)

C12_Witness ==
    /\ \E m \in forecast_metrics_df :
          /\ Cardinality(latest_inv_rows(m.sku)) = 2
          /\ m.onhand_qty > 1
          /\ ~IsNull(m.forecast_dos)
          /\ LET total == SumForecast(ForecastOf(m.sku))
             IN  (100 * total.n) % (total.d * ss.forecast_horizon_days) # 0
    /\ \E m \in forecast_metrics_df :
          /\ latest_inv_rows(m.sku) = {}
          /\ m.onhand_qty = 0
          /\ m.forecast_dos = Some(0)

(***************************************************************************)
(* Stockout-date, window and reason properties                             *)
(***************************************************************************)
\* C13: estimated_stockout_date is the reference date plus ceil(coverage_days)
\* days whenever coverage_days is defined and undefined otherwise; it is never
\* earlier than the reference date.
C13_EstimatedStockoutDate ==
    \A r \in risk \cup actions_base :
       LET c == r.coverage_days
           e == r.estimated_stockout_date
       IN  /\ IsNull(c) <=> IsNull(e)
           /\ ~IsNull(c) =>
                LET k == Val(e) - latest_date
                IN  /\ 10 * k >= Val(c)
                    /\ 10 * (k - 1) < Val(c)
                    /\ Val(e) >= latest_date

C13_Witness ==
    /\ pc = "done"
    /\ \E r \in risk, a \in actions_base :
          /\ a.sku = r.sku
          /\ ~IsNull(r.coverage_days)
          /\ Val(r.coverage_days) % 10 # 0
          /\ r.estimated_stockout_date =
                Some(latest_date + (Val(r.coverage_days) \div 10) + 1)
          /\ a.estimated_stockout_date = r.estimated_stockout_date
    /\ \E r \in risk :
          IsNull(r.coverage_days) /\ IsNull(r.estimated_stockout_date)

\* C14: every trailing N-day demand aggregate (7, 14, 30 day and DOS-basis
\* windows) is taken over exactly the rows with reference date - N days <
\* date <= reference date: the reference date is in, the date N days before
\* it is out, and at most N distinct calendar dates contribute.
DayRows(sku, n) ==
    {d \in demand_daily :
        d.sku = sku /\ \E k \in 0..(n - 1) : d.date = latest_date - k}

IsWindowTotal(v, sku, n) ==
    /\ v = SumDemand(DayRows(sku, n))
    /\ Cardinality({d.date : d \in DayRows(sku, n)}) <= n

IsWindowAvg(a, sku, n) ==
    IF DayRows(sku, n) = {} THEN a.n = 0
    ELSE a.n * Cardinality(DayRows(sku, n)) = SumDemand(DayRows(sku, n)) * a.d

C14_HalfOpenWindow ==
    /\ \A r \in sku_dos :
          IsWindowTotal(r.demand_Nd, r.sku, ss.ov_dos_basis_days)
    /\ \A r \in health :
          /\ IsWindowTotal(r.demand_30d, r.sku, 30)
          /\ IsWindowAvg(r.avg_daily_demand_Nd, r.sku,
                         ss.health_dos_basis_days)
    /\ \A r \in risk :
          /\ IsWindowTotal(r.demand_7d, r.sku, 7)
          /\ IsWindowAvg(r.avg_daily_demand_14d, r.sku, 14)
    /\ \A r \in actions_base : IsWindowAvg(r.avg_daily_demand_14d, r.sku, 14)
    /\ ~IsNull(delta_row) =>
          /\ Val(delta_row).demand_cur_7
                = SumDemand(UNION {DayRows(s, 7) : s \in base_sku})
          /\ Val(delta_row).demand_cur_7 + Val(delta_row).demand_prev_7
                = SumDemand(UNION {DayRows(s, 14) : s \in base_sku})

C14_Witness ==
    /\ pc = "done"
    /\ \A dt \in WindowDates : \E d \in demand_daily : d.date = dt
    /\ \E r \in risk : r.sku = "S1" /\ r.demand_7d = 2
    /\ \E r \in health : r.sku = "S1" /\ r.demand_30d = 6
    /\ ss.ov_dos_basis_days = 14
    /\ \E r \in sku_dos : r.sku = "S1" /\ r.demand_Nd = 4
    /\ Val(delta_row).demand_cur_7 = 2 /\ Val(delta_row).demand_prev_7 = 2

\* C15: every record gets exactly one reason, by priority: a record whose
\* coverage_days is defined and below target_cover_days gets the shortage
\* reason even when onhand_qty < target_stock also holds; the
\* below-policy-target reason is given only when the shortage rule did not
\* match.
ShortageReasons == {"ImmediateRisk", "ForecastStockoutSoon"}

BelowTargetReasons == {"PolicyReplenishROP", "ShortForLeadTimeDemand"}

FallThroughReasons == {"Other", "PolicyReplenish"}

ShortageRule(r) ==
    ~IsNull(r.coverage_days)
      /\ Val(r.coverage_days) < 10 * ss.target_cover_days

C15_ReasonPriority ==
    \A r \in actions_base \cup actions_base_ov :
       /\ r.reason \in
             ShortageReasons \cup BelowTargetReasons \cup FallThroughReasons
       /\ (r.reason \in ShortageReasons) <=> ShortageRule(r)
       /\ (r.reason \in BelowTargetReasons) <=>
             (~ShortageRule(r) /\ r.onhand_qty < r.target_stock)
       /\ (r.reason \in FallThroughReasons) <=>
             (~ShortageRule(r) /\ r.onhand_qty >= r.target_stock)

C15_Witness ==
    /\ pc = "done"
    /\ \E r \in actions_base :
          /\ ShortageRule(r) /\ r.onhand_qty < r.target_stock
          /\ r.reason = "ImmediateRisk"
    /\ \E r \in actions_base_ov :
          /\ ShortageRule(r) /\ r.onhand_qty < r.target_stock
          /\ r.reason = "ForecastStockoutSoon"

\* C16: for every admissible setting of the policy parameters no SKU
\* satisfies both the shortage rule (coverage_days defined and below
\* target_cover_days, with trailing demand) and the overstock rule
\* (coverage_days above the overstock threshold, with low trailing demand):
\* no record is given the shortage reason by the reorder tab while the
\* Overview lists it as overstocked.
C16_ShortageOverstockExclusive ==
    \A a \in actions_base, h \in hot_issues :
       (a.sku = h.sku /\ a.warehouse = h.warehouse) =>
          ~(/\ a.reason \in ShortageReasons
            /\ a.avg_daily_demand_14d.n > 0
            /\ h.issue_type = Some("OverstockLowTurnover"))

\* C17: for a fixed window demand > 0 and window length coverage_days does
\* not decrease when onhand_qty grows, and for a fixed onhand_qty > 0 it does
\* not increase when the window demand grows, rounding included.
NotBelow(c2, c1) == ~IsNull(c1) /\ ~IsNull(c2) /\ Val(c2) >= Val(c1)

C17_CoverageMonotone ==
    \A r \in sku_dos :
       LET n      == ss.ov_dos_basis_days
           o      == r.onhand_qty
           d      == r.demand_Nd
           avg(x) == Some(Rat(x, n))
       IN  /\ d > 0 =>
                /\ NotBelow(coverage_sum_based(o + 1, d, n), r.coverage_days)
                /\ NotBelow(compute_dos(o + 1, avg(d)), compute_dos(o, avg(d)))
           /\ (d > 0 /\ o > 0) =>
                /\ NotBelow(r.coverage_days, coverage_sum_based(o, d + 1, n))
                /\ NotBelow(compute_dos(o, avg(d)), compute_dos(o, avg(d + 1)))

C17_Witness ==
    \E r \in sku_dos :
       LET n == ss.ov_dos_basis_days
       IN  /\ r.demand_Nd > 1 /\ r.onhand_qty > 1
           /\ Val(coverage_sum_based(r.onhand_qty + 1, r.demand_Nd, n))
                > Val(r.coverage_days)
           /\ Val(coverage_sum_based(r.onhand_qty, r.demand_Nd + 1, n))
                < Val(r.coverage_days)
           /\ Val(r.coverage_days) % 10 # 0

(***************************************************************************)
(* Backtest and confidence properties                                      *)
(***************************************************************************)
BacktestRan == ~IsNull(confidence_hint)

\* C18: the evaluation points are exactly the (sku, date) pairs with positive
\* actual demand dated within the trailing 14 calendar days ending at the
\* reference date; the point count is their number and the MAPE is 100 times
\* the mean of |actual - predicted| / actual over them, predicted being the
\* mean of the SKU's demand in the window_days days strictly before the date.
EvalPoints ==
    {p \in PointsOf(demand_daily) :
        /\ p.date \in (latest_date - 14 + 1)..latest_date
        /\ SumDemand({r \in demand_daily :
                         r.sku = p.sku /\ r.date = p.date}) > 0}

PriorRows(p) ==
    {r \in demand_daily :
        r.sku = p.sku /\ r.date \in (p.date - ModelParam)..(p.date - 1)}

PointError(p) ==
    LET a == SumDemand({r \in demand_daily :
                           r.sku = p.sku /\ r.date = p.date})
        s == IF PriorRows(p) = {} THEN 0
             ELSE Max2(SumDemand(PriorRows(p)), 0)
        c == IF PriorRows(p) = {} THEN 1 ELSE Cardinality(PriorRows(p))
    IN  Rat(Abs(a * c - s), a * c)

C18_BacktestPoints ==
    BacktestRan =>
       LET ape == [p \in EvalPoints |-> PointError(p)]
           den == LcmSet({ape[p].d : p \in EvalPoints})
       IN  /\ mape_n = Cardinality(EvalPoints)
           /\ IsNull(mape_pct) <=> (EvalPoints = {})
           /\ ~IsNull(mape_pct) =>
                 RatEq(Val(mape_pct),
                       Rat(100 * SumApe(EvalPoints, ape, den),
                           den * Cardinality(EvalPoints)))

\* C19: the label derived from the MAPE is High when MAPE <= 20, Medium when
\* 20 < MAPE <= 40 and Low when MAPE > 40 (with at least 10 evaluation
\* points, so that the label is the MAPE-derived one).
C19_ConfidenceLabel ==
    (BacktestRan /\ ~IsNull(mape_pct) /\ mape_n >= 10) =>
       LET m    == Val(mape_pct)
           le(x) == ~RatLess(Rat(x, 1), m)
       IN  /\ le(20) => confidence_hint = Some("High")
           /\ (~le(20) /\ le(40)) => confidence_hint = Some("Medium")
           /\ ~le(40) => confidence_hint = Some("Low")

\* C20: with fewer than 10 evaluation points the reported confidence is the
\* insufficient-data outcome, never High, Medium or Low.
C20_InsufficientData ==
    (BacktestRan /\ mape_n < 10) =>
       Val(confidence_hint) \notin {"High", "Medium", "Low"}

(***************************************************************************)
(* Record granularity of the per-SKU tables                                *)
(***************************************************************************)
\* t has exactly one record for every SKU of the filter set and none for
\* any other SKU, and the record carries the on-hand quantity summed over
\* the snapshot rows of the matching warehouses
OneRecordPerSku(t) ==
    /\ {r.sku : r \in t} = base_sku
    /\ \A s \in base_sku :
          /\ Cardinality({r \in t : r.sku = s}) = 1
          /\ \A r \in t :
                r.sku = s => r.onhand_qty = SumOnhand(latest_inv_rows(s))

\* C21: after a run, the stockout-risk, inventory-health and reorder tables
\* contain exactly one record per SKU of the filter set, with on-hand summed
\* over all matching warehouses.
C21_OneRecordPerSku ==
    pc = "done" =>
        /\ OneRecordPerSku(risk)
        /\ OneRecordPerSku(health)
        /\ OneRecordPerSku(actions_base)

(***************************************************************************)
(* Bucket thresholds                                                       *)
(***************************************************************************)
\* the health tab has run
HealthRan == pc \in {"tab_stockout", "tab_actions", "tab_movements", "done"}

\* the stored thresholds do not satisfy overstock > shortage
StoredViolates == ss.health_over_days <= ss.health_shortage_days

\* every record of the health table was classified with the thresholds
\* sh and ov
ClassifiedWith(sh, ov) ==
    \A r \in health : r.bucket = assign_bucket(r.coverage_days, sh, ov)

RequiredMissing ==
    \/ IsNull(files.sku_master)
    \/ IsNull(files.demand_daily)
    \/ IsNull(files.inventory_daily)

\* load_data is executed by this step (the memo has no result)
ColdLoad == pc = "load" /\ IsNull(load_cache)

\* C23: a load fails with an error, and hands no table to the script, when
\* sku_master, demand_daily or inventory_daily is missing; when only
\* inventory_txn is missing it succeeds with the three tables of the files
\* and an empty transaction table of the eight columns.
C23_LoadRequiredFiles ==
    [][ColdLoad =>
          /\ RequiredMissing =>
                /\ pc' = "error"
                /\ UNCHANGED <<sku_master, demand_daily, inventory_daily,
                               inv_txn, load_cache>>
          /\ ~RequiredMissing =>
                /\ pc' = "forecast"
                /\ sku_master' = Val(files.sku_master)
                /\ demand_daily' = Val(files.demand_daily)
                /\ inventory_daily' = Val(files.inventory_daily)
                /\ IsNull(files.inventory_txn) =>
                      /\ inv_txn'.rows = {}
                      /\ inv_txn'.columns =
                            <<"txn_datetime", "date", "sku", "warehouse",
                              "txn_type", "qty", "ref_id", "reason_code">>
                /\ ~IsNull(files.inventory_txn) =>
                      inv_txn' = Val(files.inventory_txn)]_vars

\* a first run loaded the three tables without a transaction file and
\* displayed its results; the second run, after the memo was emptied and a
\* required file deleted, stopped with the error and kept no new table
C23_Witness ==
    /\ pc = "error"
    /\ run = 2
    /\ RequiredMissing
    /\ IsNull(load_cache)
    /\ inv_txn = EmptyTxn
    /\ sku_master = Master
    /\ risk # {}

\* C24: the tables a run works on are the ones a fresh load of the current
\* files would return: a file changed since the memoized load is read again.
C24_NoStaleLoad ==
    pc = "forecast" =>
        load_data(files) =
           Some([sku     |-> sku_master,
                 demand  |-> demand_daily,
                 inv     |-> inventory_daily,
                 inv_txn |-> inv_txn])

\* What a run displays about coverage, risk, forecast and reorder
MetricOutputs ==
    <<forecast_daily, forecast_metrics_df, sku_dos, actions_base_ov, health,
      health_cnt, risk, actions_base, delta_row, hot_issues, mape_pct,
      mape_n, confidence_hint>>

\* C25: two runs whose inputs differ only in the inventory transaction
\* table display the same coverage, risk, forecast and reorder outputs:
\* while only inventory_txn.csv changes between the runs, no step of a
\* later run changes an output of the run before it.
C25_TxnNoInfluence == [][run > 1 => UNCHANGED MetricOutputs]_vars

\* the second run has loaded transactions the first run did not have, and
\* shows them in the movements tab next to the recomputed metrics
C25_Witness ==
    /\ run = 2
    /\ pc = "done"
    /\ inv_txn.rows # {}
    /\ ~IsNull(txn_summary)
    /\ Val(txn_summary).sum_in = 3
    /\ risk # {}
    /\ forecast_daily # {}
    /\ actions_base # {}

(***************************************************************************)
(* Combined operational status                                             *)
(***************************************************************************)
\* the shortage threshold in force
ShortageThreshold ==
    IF ss.health_shortage_days \in {7, 14, 21}
    THEN ss.health_shortage_days ELSE 14

\* C26: a SKU with defined coverage is Urgent when coverage_days <
\* lead_time_days, Watch when lead_time_days <= coverage_days <
\* shortage_threshold and Stable otherwise, and it has exactly one status.
C26_OperationalStatus ==
    pc = "done" =>
       \A r \in status_rows :
          ~IsNull(r.coverage_days) =>
             LET cd == Val(r.coverage_days)
                 lt == 10 * ss.lead_time_days
                 sh == 10 * ShortageThreshold
             IN  /\ ~IsNull(r.status)
                 /\ Cardinality({x \in status_rows : x.sku = r.sku}) = 1
                 /\ (Val(r.status) = "Urgent") = (cd < lt)
                 /\ (Val(r.status) = "Watch") = (lt <= cd /\ cd < sh)
                 /\ (Val(r.status) = "Stable") = ~(cd < lt \/ (lt <= cd /\ cd < sh))

\* coverage exactly at the lead time (7.0 days, lead time 7, threshold 14)
\* is Watch
C26_Witness ==
    /\ pc = "done"
    /\ ss.lead_time_days = 7
    /\ ss.health_shortage_days = 14
    /\ \E r \in status_rows :
          /\ r.sku = "S1"
          /\ r.coverage_days = Some(70)
          /\ r.status = Some("Watch")

(***************************************************************************)
(* Sign convention of the generated transactions                           *)
(***************************************************************************)
\* a row respects the sign convention of its type
SignRespected(t) ==
    /\ t.qty # 0
    /\ t.txn_type \in {"IN", "TRANSFER_IN", "RETURN"} => t.qty > 0
    /\ t.txn_type \in {"OUT", "TRANSFER_OUT", "SCRAP"} => t.qty < 0
    /\ t.txn_type \in {"IN", "OUT", "TRANSFER_IN", "TRANSFER_OUT", "ADJUST",
                       "RETURN", "SCRAP"}

\* C27: every row a generator has produced, and every row of the file it
\* writes, has a positive qty for IN, TRANSFER_IN and RETURN, a negative qty
\* for OUT, TRANSFER_OUT and SCRAP, and a nonzero qty for ADJUST.
C27_SignConvention ==
    /\ \A i \in DOMAIN out_rows : SignRespected(out_rows[i])
    /\ ~IsNull(files.inventory_txn) =>
          \A t \in Val(files.inventory_txn).rows : SignRespected(t)

\* a written file with a negative ADJUST row after an OUT row
C27_Witness ==
    /\ pc = "written"
    /\ ~IsNull(files.inventory_txn)
    /\ \E t \in Val(files.inventory_txn).rows :
          t.txn_type = "ADJUST" /\ t.qty < 0
    /\ \E t \in Val(files.inventory_txn).rows :
          t.txn_type = "OUT" /\ t.qty < 0

(***************************************************************************)
(* Shape of the forecast table                                             *)
(***************************************************************************)
\* the SKUs of the master that pass the category, SKU and warehouse filters
FilterSet ==
    {m.sku : m \in {x \in sku_master :
        /\ (ss.cat = "ALL" \/ x.category = ss.cat)
        /\ (ss.sku_pick = "ALL" \/ x.sku = ss.sku_pick)
        /\ (ss.wh = "ALL" \/ \E i \in inventory_daily :
                                i.sku = x.sku /\ i.warehouse = ss.wh)}}

\* C28: the forecast table has, for each SKU of the filter set with at
\* least one demand row in the lookback window, exactly one row for each of
\* the dates reference_date + 1 .. reference_date + horizon_days, and no row
\* for any other SKU.
C28_ForecastTableShape ==
    pc = "tab_exec" =>
       /\ \A s \in FilterSet :
             History(s) # {} =>
                /\ {r.date : r \in ForecastOf(s)} = HorizonDates
                /\ Cardinality(ForecastOf(s)) = ss.forecast_horizon_days
       /\ \A r \in forecast_daily :
             r.sku \in FilterSet /\ History(r.sku) # {}

\* S1 has only rows outside the lookback window and gets no forecast row
\* while S2, in the filter set with one demand row, gets its 14 rows
C28_Witness ==
    /\ pc = "tab_exec"
    /\ ss.forecast_horizon_days = 14
    /\ ss.cat = "ALL"
    /\ "S1" \in FilterSet
    /\ \E d \in demand_daily : d.sku = "S1"
    /\ History("S1") = {}
    /\ ForecastOf("S1") = {}
    /\ Cardinality(ForecastOf("S2")) = 14

(***************************************************************************)
(* Severity of the priority issues                                         *)
(***************************************************************************)
\* the fixed risk level of a defined coverage (in tenths of a day)
FixedLevel(cov10) ==
    IF cov10 < 30 THEN "Critical"
    ELSE IF cov10 < 70 THEN "High"
    ELSE IF cov10 < 140 THEN "Medium"
    ELSE "Low"

\* C29: the severity of a shortage issue of the Overview list is Critical
\* for coverage < 3, High for 3 <= coverage < 7 and Medium for 7 <= coverage
\* < 14, and equals the risk level the stockout-risk table gives the same
\* SKU for the same coverage.
C29_SeverityFollowsRiskLevels ==
    pc = "done" =>
       \A i \in hot_issues :
          i.issue_type = Some("StockoutSoon") =>
             \A row \in hot_sql(forecast_metrics_df) :
                (row.sku = i.sku /\ row.warehouse = i.warehouse) =>
                   /\ i.severity = FixedLevel(Val(row.coverage_days))
                   /\ \A r \in risk :
                         (/\ r.sku = i.sku
                          /\ r.warehouse = i.warehouse
                          /\ r.coverage_days = row.coverage_days)
                            => r.risk_level = i.severity

(***************************************************************************)
(* The SQL and the pandas SKU filters                                      *)
(***************************************************************************)
\* the SKUs of a table
SkusOf(t) == {r.sku : r \in t}

\* C30: the SKUs selected by get_base_sku_where and by
\* _get_filtered_skus_pandas are the same for every filter combination: the
\* SKUs of the category and SKU filters that, under a warehouse filter, have
\* an inventory row in that warehouse on any date; so the SQL tables list
\* exactly these SKUs and the forecast those of them that have history.
C30_SameSkuFilter ==
    pc = "done" =>
       /\ base_sku = _get_filtered_skus_pandas(sku_master, inventory_daily,
                                               ss.cat, ss.wh, ss.sku_pick)
       /\ base_sku = FilterSet
       /\ SkusOf(risk) = FilterSet
       /\ SkusOf(health) = FilterSet
       /\ SkusOf(actions_base) = FilterSet
       /\ SkusOf(sku_dos) = FilterSet
       /\ ForecastSkus = {s \in FilterSet : History(s) # {}}

\* under the WH-2 filter S2, whose only WH-2 row is older than the
\* snapshot, is in the SQL tables and in the forecast
C30_Witness ==
    /\ pc = "done"
    /\ ss.wh = "WH-2"
    /\ ss.sku_pick = "S2"
    /\ \E i \in inventory_daily :
          i.sku = "S2" /\ i.warehouse = "WH-2" /\ i.date < latest_date
    /\ ~\E i \in inventory_daily :
          i.sku = "S2" /\ i.warehouse = "WH-2" /\ i.date = latest_date
    /\ "S2" \in SkusOf(risk)
    /\ "S2" \in ForecastSkus

====
